---------------------------- MODULE Spec2Model ----------------------------
(***************************************************************************)
(* Consolidation Store of the LinkedIn data extractor: the message-typed   *)
(* merge/append handlers of src/background/service-worker.js over the      *)
(* chrome.storage.local key/value backend.                                 *)
(*                                                                         *)
(* JS values.  An object is a TLA+ record whose DOMAIN is the set of its   *)
(* own properties (a missing property is `undefined').  A top-level array  *)
(* is wrapped as [array |-> <<...>>] so that it can be told from an        *)
(* object; null/undefined is NULL.  Time stamps (new Date().toISOString()) *)
(* are positive integers read from the clock.                              *)
(***************************************************************************)
EXTENDS Integers, Sequences, FiniteSets, TLC

VARIABLES
    storage,    \* chrome.storage.local: key -> stored value (NULL when absent)
    request,    \* the message the listener handled last
    response,   \* the object it passed to sendResponse
    io,         \* the backend calls that handler made, in order
    clock,      \* Date.now() at the last handled message
    faults,     \* backend failures injected so far
    inflight,   \* handlers suspended at `await getFromStorage'
    done,       \* the requests answered by resumed handlers, in order
    time,       \* Date.now() in the page, in ms
    hostCalls,  \* calls of wrapped primitives made by the host page so far
    bus,        \* the linkedin-api-captured events dispatched, in order
    lastVoyagerUrl,         \* the recency pointer: a URL or null
    lastVoyagerTimestamp,
    pendingRequests,        \* the Map of tracked requests
    fetches,    \* the fetch calls of the host and how they settled
    host,       \* what the host observed of its last call
    given,      \* the argument of a function applied on its own
    returned,   \* what that function returned
    xhr,        \* one XMLHttpRequest object of the host page
    windows,    \* page contexts the interceptor script is evaluated in
    paging      \* the run of fetchAllConnections

\* the service worker's state
workerVars == <<storage, request, response, io, clock, faults, inflight, done>>

\* the state of the page interceptor
pageVars == <<time, hostCalls, bus, lastVoyagerUrl, lastVoyagerTimestamp,
              pendingRequests, fetches, host>>

vars == <<storage, request, response, io, clock, faults, inflight, done,
          time, hostCalls, bus, lastVoyagerUrl, lastVoyagerTimestamp,
          pendingRequests, fetches, host,
          given, returned, xhr, windows, paging>>

\* the state of the handlers that are suspended between their get and set
raceVars == <<inflight, done>>

\* a function applied on its own
callVars == <<given, returned, xhr, windows, paging>>

-----------------------------------------------------------------------------
(* Bounds of the model *)

MaxRequests == 2    \* messages handled in one behaviour
MaxFaults == 1      \* backend get/set calls that fail in one behaviour

-----------------------------------------------------------------------------
(* Program constants *)

FEED_CAP == 500
TOP_HITS_CAP == 20
TOP_HITS_MIN == 50
COMMENTS_CAP == 1000
TOP_COMMENTS_CAP == 50
TOP_COMMENTS_MIN == 5
MY_POSTS_CAP == 200
COMMENT_WEIGHT == 3
HISTORY_CAP == 100
FOLLOWERS_CAP == 500
TRENDING_CAP == 200
POST_ANALYTICS_CAP == 100
LOG_CAP == 1000

K_FEED_POSTS == "linkedin_feed_posts"
K_MY_POSTS == "linkedin_my_posts"
K_COMMENTS == "linkedin_comments"
K_FOLLOWERS == "linkedin_followers"
K_TRENDING == "linkedin_trending"
K_POST_ANALYTICS == "linkedin_post_analytics"
K_CAPTURED_APIS == "captured_apis"

STORAGE_KEYS ==
    {K_FEED_POSTS, K_MY_POSTS, K_COMMENTS, K_FOLLOWERS, K_TRENDING,
     K_POST_ANALYTICS, K_CAPTURED_APIS}

-----------------------------------------------------------------------------
(* JS values *)

NULL == [null |-> TRUE]
IsNull(v) == "null" \in DOMAIN v
Arr(s) == [array |-> s]
IsArray(v) == "array" \in DOMAIN v

\* obj.f, with d standing for `obj.f || d' / `obj?.f || d'
Prop(obj, f, d) == IF f \in DOMAIN obj THEN obj[f] ELSE d
\* (obj.f || 0) for a numeric property
Num(obj, f) == Prop(obj, f, 0)
\* (obj.g?.f || 0) for a nested numeric property
Num2(obj, g, f) == IF g \in DOMAIN obj THEN Num(obj[g], f) ELSE 0
\* truthiness of a string property: present and not empty
Truthy(obj, f) == f \in DOMAIN obj /\ obj[f] # ""
\* { ...a, ...b }
Spread(a, b) ==
    [f \in DOMAIN a \cup DOMAIN b |-> IF f \in DOMAIN b THEN b[f] ELSE a[f]]

\* Math.round(total / n) for total >= 0, n > 0
RoundDiv(total, n) == (2 * total + n) \div (2 * n)

Min(a, b) == IF a <= b THEN a ELSE b
\* slice(0, n) cutting one record late
SliceHeadLate(s, n) == SubSeq(s, 1, Min(Len(s), n + 1))
\* arr.slice(0, n)
SliceHead(s, n) == SubSeq(s, 1, Min(Len(s), n))
\* arr.slice(-n)
SliceTail(s, n) == SubSeq(s, IF Len(s) > n THEN Len(s) - n + 1 ELSE 1, Len(s))

\* arr.reduce((sum, p) => sum + val(p), 0), given the values val(p) in order
RECURSIVE SumRange(_, _, _)
SumRange(nums, lo, hi) ==
    IF lo > hi THEN 0
    ELSE IF lo = hi THEN nums[lo]
    ELSE LET mid == (lo + hi) \div 2
         IN  SumRange(nums, lo, mid) + SumRange(nums, mid + 1, hi)
Sum(nums) == SumRange(nums, 1, Len(nums))

\* arr.sort((a, b) => key(b) - key(a)): stable, descending by key
\* (keys[i] is the key of s[i])
RECURSIVE SortDescFrom(_, _, _)
SortDescFrom(s, keys, vals) ==
    IF vals = {} THEN <<>>
    ELSE LET top == CHOOSE v \in vals : \A w \in vals : w <= v
             IsTop(i) == keys[i] = top
             at == SelectSeq([i \in DOMAIN s |-> i], IsTop)
         IN  [j \in DOMAIN at |-> s[at[j]]]
             \o SortDescFrom(s, keys, vals \ {top})
SortDesc(s, keys) == SortDescFrom(s, keys, {keys[i] : i \in DOMAIN s})

\* new Map() keyed by the property idf of its values: the values in
\* insertion order (every value carries its key) and the set of keys;
\* set() on a present key replaces the value where it stands
EmptyMap == [vals |-> <<>>, keyset |-> {}]
MapHas(m, k) == k \in m.keyset
MapPos(m, idf, k) == CHOOSE i \in DOMAIN m.vals : m.vals[i][idf] = k
MapGet(m, idf, k) == m.vals[MapPos(m, idf, k)]
MapSet(m, idf, v) ==
    IF MapHas(m, v[idf])
    THEN [m EXCEPT !.vals[MapPos(m, idf, v[idf])] = v]
    ELSE [vals |-> Append(m.vals, v), keyset |-> m.keyset \cup {v[idf]}]
\* Array.from(map.values())
MapValues(m) == m.vals

-----------------------------------------------------------------------------
(* Persistence backend: chrome.storage.local behind the two wrappers.  ok   *)
(* is the outcome of the backend call: FALSE when the promise rejects.      *)

IoGet(key, ok) == [op |-> "get", key |-> key, ok |-> ok]
IoSet(key, ok) == [op |-> "set", key |-> key, ok |-> ok]

\* the stored object written without its time stamp
saveToStorageSplit(st, key, data, ok) ==
    IF ok
    THEN [storage |-> [st EXCEPT ![key] =
                          [f \in DOMAIN data \ {"lastUpdated"} |-> data[f]]],
          result |-> [success |-> TRUE]]
    ELSE [storage |-> st,
          result |-> [success |-> FALSE, error |-> "set failed"]]

\* saveToStorage: the write takes effect only when set() resolves; the
\* rejection is caught and turned into the wrapper's return value
saveToStorage(st, key, data, ok) ==
    IF ok
    THEN [storage |-> [st EXCEPT ![key] = data], result |-> [success |-> TRUE]]
    ELSE [storage |-> st,
          result |-> [success |-> FALSE, error |-> "set failed"]]

\* getFromStorage: { success: true, data: result[key] || null }, or the
\* caught rejection, which carries no data property
getFromStorage(st, key, ok) ==
    IF ok
    THEN [success |-> TRUE, data |-> st[key]]
    ELSE [success |-> FALSE, error |-> "get failed"]

\* existing.data || d
DataOr(existing, d) ==
    LET data == Prop(existing, "data", NULL)
    IN  IF IsNull(data) THEN d ELSE data

-----------------------------------------------------------------------------
(* Feed posts *)

\* calculateFeedStats: the three averages (the hashtag and post-type
\* frequency tables are computed from the same argument and not modelled)
calculateFeedStats(posts) ==
    IF Len(posts) = 0
    THEN [avgEngagement |-> 0, avgLikes |-> 0, avgComments |-> 0]
    ELSE LET likes ==
                 [i \in DOMAIN posts |-> Num2(posts[i], "engagement", "likes")]
             comments ==
                 [i \in DOMAIN posts |->
                     Num2(posts[i], "engagement", "comments")]
             score == [i \in DOMAIN posts |-> Num(posts[i], "engagementScore")]
         IN  [avgEngagement |-> RoundDiv(Sum(score), Len(posts)),
              avgLikes |-> RoundDiv(Sum(likes), Len(posts)),
              avgComments |-> RoundDiv(Sum(comments), Len(posts))]

\* the filter without the slice
FeedTopHitsAll(allPosts) ==
    LET hit(p) == "engagementScore" \in DOMAIN p
                  /\ p.engagementScore > TOP_HITS_MIN
    IN  SelectSeq(allPosts, hit)

\* allPosts.filter(p => p.engagementScore > 50).slice(0, 20)
FeedTopHits(allPosts) ==
    LET hit(p) == "engagementScore" \in DOMAIN p
                  /\ p.engagementScore > TOP_HITS_MIN
    IN  SliceHead(SelectSeq(allPosts, hit), TOP_HITS_CAP)

\* records.forEach(r => { if (r[idf]) map.set(r[idf], r) }), records lo..hi.
\* The map is an object; taking the DOMAIN of the left half's map evaluates
\* it before the right half starts, which keeps the evaluation depth
\* logarithmic in the number of records.
RECURSIVE SetEach(_, _, _, _, _)
SetEach(map, records, idf, lo, hi) ==
    IF lo > hi THEN map
    ELSE IF lo = hi
    THEN IF Truthy(records[lo], idf) THEN MapSet(map, idf, records[lo])
         ELSE map
    ELSE LET mid == (lo + hi) \div 2
             left == SetEach(map, records, idf, lo, mid)
         IN  IF DOMAIN left = {} THEN SetEach(left, records, idf, mid + 1, hi)
             ELSE SetEach(left, records, idf, mid + 1, hi)

\* the loop on a new Map.  When no key repeats every record is set once, in
\* order; otherwise the loop is run record by record.
IndexBy(records, idf) ==
    LET keyed(r) == Truthy(r, idf)
        kept == SelectSeq(records, keyed)
        keyset == {kept[i][idf] : i \in DOMAIN kept}
    IN  IF Cardinality(keyset) = Len(kept)
        THEN [vals |-> kept, keyset |-> keyset]
        ELSE SetEach(EmptyMap, kept, idf, 1, Len(kept))

\* the loop body counting a record without identity key as a new one
MergeOneCounted(acc, r, idf, now) ==
    IF Truthy(r, idf)
    THEN LET has == MapHas(acc.map, r[idf])
             old == IF has THEN MapGet(acc.map, idf, r[idf]) ELSE <<>>
             new == Spread(Spread(old, r), [lastUpdated |-> now])
         IN  [map |-> MapSet(acc.map, idf, new),
              newCount |-> acc.newCount + (IF has THEN 0 ELSE 1)]
    ELSE [map |-> acc.map, newCount |-> acc.newCount + 1]

\* the add/update loop shared by feed posts and my-posts: incoming fields
\* win over the existing record's, lastUpdated is stamped
MergeOne(acc, r, idf, now) ==
    IF Truthy(r, idf)
    THEN LET has == MapHas(acc.map, r[idf])
             old == IF has THEN MapGet(acc.map, idf, r[idf]) ELSE <<>>
             new == Spread(Spread(old, r), [lastUpdated |-> now])
         IN  [map |-> MapSet(acc.map, idf, new),
              newCount |-> acc.newCount + (IF has THEN 0 ELSE 1)]
    ELSE acc

RECURSIVE MergeEach(_, _, _, _, _, _)
MergeEach(acc, incoming, idf, now, lo, hi) ==
    IF lo > hi THEN acc
    ELSE IF lo = hi THEN MergeOne(acc, incoming[lo], idf, now)
    ELSE LET mid == (lo + hi) \div 2
             left == MergeEach(acc, incoming, idf, now, lo, mid)
         IN  IF DOMAIN left = {}
             THEN MergeEach(left, incoming, idf, now, mid + 1, hi)
             ELSE MergeEach(left, incoming, idf, now, mid + 1, hi)

MergeInto(map, incoming, idf, now) ==
    MergeEach([map |-> map, newCount |-> 0], incoming, idf, now,
              1, Len(incoming))

\* the opening test without the length of the batch
NoBatchUnsized(batch) == IsNull(batch) \/ ~IsArray(batch)

\* !batch || !Array.isArray(batch) || batch.length === 0
NoBatch(batch) ==
    IsNull(batch) \/ ~IsArray(batch) \/ Len(batch.array) = 0

\* the posts left in Map order
FeedRankNone(posts) == posts

\* allPosts.sort by engagementScore, descending
FeedRank(posts) ==
    SortDesc(posts, [i \in DOMAIN posts |-> Num(posts[i], "engagementScore")])

saveFeedPostsToStorage(st, newPosts, now, getOk, setOk) ==
    IF NoBatch(newPosts)
    THEN [storage |-> st, io |-> <<>>,
          response |-> [success |-> TRUE, count |-> 0,
                        message |-> "No posts to save"]]
    ELSE
    LET existing == getFromStorage(st, K_FEED_POSTS, getOk)
        stored == DataOr(existing, Arr(<<>>))
    IN  IF ~IsArray(stored)
        THEN \* allPosts.forEach on a non-array throws; caught below
             [storage |-> st, io |-> <<IoGet(K_FEED_POSTS, getOk)>>,
              response |-> [success |-> FALSE,
                            error |-> "allPosts.forEach is not a function"]]
        ELSE
        LET merged == MergeInto(IndexBy(stored.array, "urn"),
                                newPosts.array, "urn", now)
            allPosts == SliceHead(FeedRank(MapValues(merged.map)), FEED_CAP)
            topHits == FeedTopHits(allPosts)
            feedData == [posts |-> allPosts,
                         topHits |-> topHits,
                         totalCount |-> Len(allPosts),
                         lastUpdated |-> now,
                         stats |-> calculateFeedStats(allPosts)]
            saved == saveToStorage(st, K_FEED_POSTS, feedData, setOk)
        IN  [storage |-> saved.storage,
             io |-> <<IoGet(K_FEED_POSTS, getOk), IoSet(K_FEED_POSTS, setOk)>>,
             response |-> [success |-> TRUE,
                           newCount |-> merged.newCount,
                           totalCount |-> Len(allPosts),
                           topHitsCount |-> Len(topHits)]]

-----------------------------------------------------------------------------
(* Comments *)

\* only comments whose urn is not in the map yet are added
AddOne(acc, r, idf) ==
    IF Truthy(r, idf) /\ ~MapHas(acc.map, r[idf])
    THEN [map |-> MapSet(acc.map, idf, r), newCount |-> acc.newCount + 1]
    ELSE acc

RECURSIVE AddEach(_, _, _, _, _)
AddEach(acc, incoming, idf, lo, hi) ==
    IF lo > hi THEN acc
    ELSE IF lo = hi THEN AddOne(acc, incoming[lo], idf)
    ELSE LET mid == (lo + hi) \div 2
             left == AddEach(acc, incoming, idf, lo, mid)
         IN  IF DOMAIN left = {} THEN AddEach(left, incoming, idf, mid + 1, hi)
             ELSE AddEach(left, incoming, idf, mid + 1, hi)

AddNew(map, incoming, idf) ==
    AddEach([map |-> map, newCount |-> 0], incoming, idf, 1, Len(incoming))

\* allComments.sort by likes, descending
CommentRank(comments) ==
    SortDesc(comments, [i \in DOMAIN comments |-> Num(comments[i], "likes")])

\* allComments.filter(c => c.likes >= 5).slice(0, 50)
TopComments(allComments) ==
    LET top(c) == "likes" \in DOMAIN c /\ c.likes >= TOP_COMMENTS_MIN
    IN  SliceHead(SelectSeq(allComments, top), TOP_COMMENTS_CAP)

CommentStats(allComments, topComments) ==
    LET textLength ==
            [i \in DOMAIN allComments |->
                IF "text" \in DOMAIN allComments[i]
                THEN Len(allComments[i].text) ELSE 0]
        likes == [i \in DOMAIN allComments |-> Num(allComments[i], "likes")]
        n == Len(allComments)
    IN  [avgLength |-> IF n > 0 THEN RoundDiv(Sum(textLength), n) ELSE 0,
         avgLikes |-> IF n > 0 THEN RoundDiv(Sum(likes), n) ELSE 0,
         topCommentsCount |-> Len(topComments)]

saveCommentsToStorage(st, newComments, now, getOk, setOk) ==
    IF NoBatch(newComments)
    THEN [storage |-> st, io |-> <<>>,
          response |-> [success |-> TRUE, count |-> 0]]
    ELSE
    LET existing == getFromStorage(st, K_COMMENTS, getOk)
        existingData == DataOr(existing, [comments |-> <<>>, stats |-> <<>>])
        merged == AddNew(IndexBy(Prop(existingData, "comments", <<>>), "urn"),
                         newComments.array, "urn")
        allComments ==
            SliceHead(CommentRank(MapValues(merged.map)), COMMENTS_CAP)
        topComments == TopComments(allComments)
        commentsData == [comments |-> allComments,
                         topComments |-> topComments,
                         totalCount |-> Len(allComments),
                         lastUpdated |-> now,
                         stats |-> CommentStats(allComments, topComments)]
        saved == saveToStorage(st, K_COMMENTS, commentsData, setOk)
    IN  [storage |-> saved.storage,
         io |-> <<IoGet(K_COMMENTS, getOk), IoSet(K_COMMENTS, setOk)>>,
         response |-> [success |-> TRUE,
                       newCount |-> merged.newCount,
                       totalCount |-> Len(allComments)]]

-----------------------------------------------------------------------------
(* My posts *)

\* (engagement.likes || 0) + (engagement.comments || 0) * 3
MyPostScore(p) ==
    Num2(p, "engagement", "likes")
    + Num2(p, "engagement", "comments") * COMMENT_WEIGHT

\* the sort by likes alone
MyPostRankByLikes(posts) ==
    SortDesc(posts,
             [i \in DOMAIN posts |-> Num2(posts[i], "engagement", "likes")])
MyPostRank(posts) ==
    SortDesc(posts, [i \in DOMAIN posts |-> MyPostScore(posts[i])])

\* the integer statistics (avgEngagementRate, a parseFloat/toFixed string,
\* is computed from the same list and not modelled)
MyPostStats(allPosts) ==
    LET impressions ==
            [i \in DOMAIN allPosts |->
                Num2(allPosts[i], "analytics", "impressions")]
        likes ==
            [i \in DOMAIN allPosts |->
                Num2(allPosts[i], "engagement", "likes")]
        comments ==
            [i \in DOMAIN allPosts |->
                Num2(allPosts[i], "engagement", "comments")]
        n == Len(allPosts)
        totalImpressions == Sum(impressions)
        totalLikes == Sum(likes)
        totalComments == Sum(comments)
    IN  [totalImpressions |-> totalImpressions,
         totalLikes |-> totalLikes,
         totalComments |-> totalComments,
         avgImpressions |-> IF n > 0 THEN RoundDiv(totalImpressions, n) ELSE 0,
         avgLikes |-> IF n > 0 THEN RoundDiv(totalLikes, n) ELSE 0,
         avgComments |-> IF n > 0 THEN RoundDiv(totalComments, n) ELSE 0]

saveMyPostsToStorage(st, newPosts, now, getOk, setOk) ==
    IF NoBatch(newPosts)
    THEN [storage |-> st, io |-> <<>>,
          response |-> [success |-> TRUE, count |-> 0]]
    ELSE
    LET existing == getFromStorage(st, K_MY_POSTS, getOk)
        existingData == DataOr(existing, [posts |-> <<>>, stats |-> <<>>])
        merged == MergeInto(IndexBy(Prop(existingData, "posts", <<>>), "urn"),
                            newPosts.array, "urn", now)
        allPosts == SliceHead(MyPostRank(MapValues(merged.map)), MY_POSTS_CAP)
        myPostsData == [posts |-> allPosts,
                        bestPost |-> IF Len(allPosts) > 0 THEN allPosts[1]
                                     ELSE NULL,
                        totalCount |-> Len(allPosts),
                        lastUpdated |-> now,
                        stats |-> MyPostStats(allPosts)]
        saved == saveToStorage(st, K_MY_POSTS, myPostsData, setOk)
    IN  [storage |-> saved.storage,
         io |-> <<IoGet(K_MY_POSTS, getOk), IoSet(K_MY_POSTS, setOk)>>,
         response |-> [success |-> TRUE,
                       newCount |-> merged.newCount,
                       totalCount |-> Len(allPosts)]]

-----------------------------------------------------------------------------
(* Followers and trending topics: the incoming item replaces the stored   *)
(* one wholly                                                              *)

ReplaceInto(map, incoming, idf) ==
    SetEach(map, incoming, idf, 1, Len(incoming))

saveFollowersToStorage(st, newData, now, getOk, setOk) ==
    IF IsNull(newData)
    THEN [storage |-> st, io |-> <<>>,
          response |-> [success |-> TRUE, count |-> 0]]
    ELSE
    LET existing == getFromStorage(st, K_FOLLOWERS, getOk)
        existingData ==
            DataOr(existing,
                   [followers |-> <<>>, followerCount |-> 0, history |-> <<>>])
        \* if (newData.followerCount): 0 and a missing count are skipped
        counted ==
            IF Num(newData, "followerCount") # 0
            THEN LET history ==
                         Append(Prop(existingData, "history", <<>>),
                                [count |-> newData.followerCount,
                                 timestamp |-> now])
                 IN  Spread(existingData,
                            [history |-> SliceTail(history, HISTORY_CAP),
                             followerCount |-> newData.followerCount])
            ELSE existingData
        listed ==
            IF "followers" \in DOMAIN newData /\ Len(newData.followers) > 0
            THEN LET followerMap ==
                         ReplaceInto(
                             IndexBy(Prop(counted, "followers", <<>>),
                                     "entityUrn"),
                             newData.followers, "entityUrn")
                 IN  Spread(counted,
                            [followers |-> SliceHead(MapValues(followerMap),
                                                     FOLLOWERS_CAP)])
            ELSE counted
        followersData == Spread(listed, [lastUpdated |-> now])
        saved == saveToStorage(st, K_FOLLOWERS, followersData, setOk)
    IN  [storage |-> saved.storage,
         io |-> <<IoGet(K_FOLLOWERS, getOk), IoSet(K_FOLLOWERS, setOk)>>,
         response |->
             Spread([success |-> TRUE,
                     count |-> Len(Prop(followersData, "followers", <<>>))],
                    IF "followerCount" \in DOMAIN followersData
                    THEN [followerCount |-> followersData.followerCount]
                    ELSE <<>>)]

saveTrendingToStorage(st, newTopics, now, getOk, setOk) ==
    IF NoBatch(newTopics)
    THEN [storage |-> st, io |-> <<>>,
          response |-> [success |-> TRUE, count |-> 0]]
    ELSE
    LET existing == getFromStorage(st, K_TRENDING, getOk)
        existingData == DataOr(existing, [topics |-> <<>>, history |-> <<>>])
        \* { ...t, lastSeen: now } is what the loop sets for topic t
        seen == [i \in DOMAIN newTopics.array |->
                    Spread(newTopics.array[i], [lastSeen |-> now])]
        topicMap ==
            ReplaceInto(IndexBy(Prop(existingData, "topics", <<>>), "topic"),
                        seen, "topic")
        allTopics == MapValues(topicMap)
        trendingData == [topics |-> SliceHead(allTopics, TRENDING_CAP),
                         totalCount |-> Len(allTopics),
                         lastUpdated |-> now]
        saved == saveToStorage(st, K_TRENDING, trendingData, setOk)
    IN  [storage |-> saved.storage,
         io |-> <<IoGet(K_TRENDING, getOk), IoSet(K_TRENDING, setOk)>>,
         response |-> [success |-> TRUE, count |-> Len(allTopics)]]

-----------------------------------------------------------------------------
(* Post analytics: one record per message *)

\* allPosts.findIndex(p => p.activityUrn === urn), 0 for -1
FindIndex(posts, urn) ==
    LET hits == {i \in DOMAIN posts :
                    "activityUrn" \in DOMAIN posts[i]
                    /\ posts[i].activityUrn = urn}
    IN  IF hits = {} THEN 0 ELSE CHOOSE i \in hits : \A j \in hits : i <= j

\* update in place, or push with firstCaptured
Upsert(allPosts, newData, now) ==
    LET existingIndex == FindIndex(allPosts, newData.activityUrn)
    IN  IF existingIndex > 0
        THEN [allPosts EXCEPT
                 ![existingIndex] =
                     Spread(Spread(allPosts[existingIndex], newData),
                            [lastUpdated |-> now])]
        ELSE Append(allPosts,
                    Spread(newData,
                           [firstCaptured |-> now, lastUpdated |-> now]))

\* allPosts.sort by impressions, descending
AnalyticsRank(posts) ==
    SortDesc(posts, [i \in DOMAIN posts |-> Num(posts[i], "impressions")])

\* the integer statistics (avgEngagementRate is not modelled)
PostAnalyticsStats(allPosts) ==
    LET impressions ==
            [i \in DOMAIN allPosts |-> Num(allPosts[i], "impressions")]
        reactions ==
            [i \in DOMAIN allPosts |->
                Num2(allPosts[i], "engagement", "reactions")]
        comments ==
            [i \in DOMAIN allPosts |->
                Num2(allPosts[i], "engagement", "comments")]
        n == Len(allPosts)
        totalImpressions == Sum(impressions)
        totalReactions == Sum(reactions)
    IN  [totalImpressions |-> totalImpressions,
         totalReactions |-> totalReactions,
         totalComments |-> Sum(comments),
         avgImpressions |-> IF n > 0 THEN RoundDiv(totalImpressions, n) ELSE 0,
         avgReactions |-> IF n > 0 THEN RoundDiv(totalReactions, n) ELSE 0]

savePostAnalyticsToStorage(st, newData, now, getOk, setOk) ==
    IF IsNull(newData) \/ ~Truthy(newData, "activityUrn")
    THEN [storage |-> st, io |-> <<>>,
          response |-> [success |-> FALSE,
                        error |-> "No activity URN provided"]]
    ELSE
    LET existing == getFromStorage(st, K_POST_ANALYTICS, getOk)
        existingData == DataOr(existing, [posts |-> <<>>, stats |-> <<>>])
        stored == Prop(existingData, "posts", <<>>)
        allPosts == SliceHead(AnalyticsRank(Upsert(stored, newData, now)),
                              POST_ANALYTICS_CAP)
        postAnalyticsData == [posts |-> allPosts,
                              totalCount |-> Len(allPosts),
                              lastUpdated |-> now,
                              stats |-> PostAnalyticsStats(allPosts)]
        saved == saveToStorage(st, K_POST_ANALYTICS, postAnalyticsData, setOk)
    IN  [storage |-> saved.storage,
         io |-> <<IoGet(K_POST_ANALYTICS, getOk),
                  IoSet(K_POST_ANALYTICS, setOk)>>,
         response |-> [success |-> TRUE,
                       totalCount |-> Len(allPosts),
                       isUpdate |-> FindIndex(stored, newData.activityUrn) > 0]]

-----------------------------------------------------------------------------
(* Generic log *)

appendToStorage(st, key, newData, now, getOk, setOk) ==
    LET existing == getFromStorage(st, key, getOk)
        currentArray == DataOr(existing, Arr(<<>>))
    IN  IF ~IsArray(currentArray)
        THEN \* currentArray.push on a non-array throws; caught below
             [storage |-> st, io |-> <<IoGet(key, getOk)>>,
              response |-> [success |-> FALSE,
                            error |-> "currentArray.push is not a function"]]
        ELSE
        LET dataWithTimestamp ==
                Spread(IF IsNull(newData) THEN <<>> ELSE newData,
                       [capturedAt |-> now])
            trimmedArray ==
                SliceTail(Append(currentArray.array, dataWithTimestamp),
                          LOG_CAP)
            saved == saveToStorage(st, key, Arr(trimmedArray), setOk)
        IN  [storage |-> saved.storage,
             io |-> <<IoGet(key, getOk), IoSet(key, setOk)>>,
             response |-> [success |-> TRUE, count |-> Len(trimmedArray)]]

-----------------------------------------------------------------------------
(* The message listener: one action per message type.  A message is       *)
(* handled at time clock + 1; the handler's backend calls succeed or fail  *)
(* as the environment decides.                                             *)

Failed(calls) == Cardinality({i \in DOMAIN calls : ~calls[i].ok})

\* the async body of the listener: await the handler, then sendResponse
Respond(msg, out) ==
    /\ faults + Failed(out.io) <= MaxFaults
    /\ storage' = out.storage
    /\ request' = msg
    /\ response' = out.response
    /\ io' = out.io
    /\ clock' = clock + 1
    /\ faults' = faults + Failed(out.io)
    /\ UNCHANGED raceVars
    /\ UNCHANGED pageVars
    /\ UNCHANGED callVars

SAVE_FEED_POSTS(posts, getOk, setOk) ==
    /\ clock < MaxRequests
    /\ Respond([type |-> "SAVE_FEED_POSTS", posts |-> posts],
           saveFeedPostsToStorage(storage, posts, clock + 1, getOk, setOk))

SAVE_COMMENTS(comments, getOk, setOk) ==
    /\ clock < MaxRequests
    /\ Respond([type |-> "SAVE_COMMENTS", comments |-> comments],
           saveCommentsToStorage(storage, comments, clock + 1, getOk, setOk))

SAVE_MY_POSTS(posts, getOk, setOk) ==
    /\ clock < MaxRequests
    /\ Respond([type |-> "SAVE_MY_POSTS", posts |-> posts],
           saveMyPostsToStorage(storage, posts, clock + 1, getOk, setOk))

SAVE_FOLLOWERS(data, getOk, setOk) ==
    /\ clock < MaxRequests
    /\ Respond([type |-> "SAVE_FOLLOWERS", data |-> data],
           saveFollowersToStorage(storage, data, clock + 1, getOk, setOk))

SAVE_TRENDING(topics, getOk, setOk) ==
    /\ clock < MaxRequests
    /\ Respond([type |-> "SAVE_TRENDING", topics |-> topics],
           saveTrendingToStorage(storage, topics, clock + 1, getOk, setOk))

POST_ANALYTICS_CAPTURED(data, getOk, setOk) ==
    /\ clock < MaxRequests
    /\ Respond([type |-> "POST_ANALYTICS_CAPTURED", data |-> data],
           savePostAnalyticsToStorage(storage, data, clock + 1, getOk, setOk))

APPEND_DATA(key, data, getOk, setOk) ==
    /\ clock < MaxRequests
    /\ Respond([type |-> "APPEND_DATA", key |-> key, data |-> data],
           appendToStorage(storage, key, data, clock + 1, getOk, setOk))

API_CAPTURED(msg, getOk, setOk) ==
    /\ clock < MaxRequests
    /\ Respond([type |-> "API_CAPTURED"] @@ msg,
           appendToStorage(storage, K_CAPTURED_APIS,
                           [endpoint |-> msg.endpoint, method |-> msg.method,
                            responseData |-> msg.data, url |-> msg.url],
                           clock + 1, getOk, setOk))

-----------------------------------------------------------------------------
(* Messages of the small model *)

FeedBatches ==
    { NULL,
      Arr(<<[urn |-> "a", engagementScore |-> 60],
            [urn |-> "b", engagementScore |-> 10]>>),
      Arr(<<[urn |-> "a", engagementScore |-> 70, author |-> "x"]>>),
      Arr(<<[urn |-> "d", engagement |-> [likes |-> 3, comments |-> 1]],
            [urn |-> "", engagementScore |-> 90],
            [urn |-> "c", engagementScore |-> 55]>>) }

CommentBatches ==
    { Arr(<<[urn |-> "c1", likes |-> 3]>>),
      Arr(<<[urn |-> "c1", likes |-> 9, text |-> "hi"]>>),
      Arr(<<[urn |-> "c2", likes |-> 5], [urn |-> "", likes |-> 7]>>) }

MyPostBatches ==
    { Arr(<<[urn |-> "p1", engagement |-> [likes |-> 2, comments |-> 1]],
            [urn |-> "p2", engagement |-> [likes |-> 4, comments |-> 0]]>>),
      Arr(<<[urn |-> "p2", engagement |-> [likes |-> 10, comments |-> 0],
             analytics |-> [impressions |-> 100]]>>),
      Arr(<<[title |-> "t"]>>) }

FollowerData ==
    { [followerCount |-> 10],
      [followerCount |-> 0],
      [followerCount |-> 12,
       followers |-> <<[entityUrn |-> "f1", name |-> "n1"],
                       [entityUrn |-> "f2"]>>],
      [followers |-> <<[entityUrn |-> "f1", name |-> "n2"],
                       [name |-> "n3"]>>] }

TrendingBatches ==
    { Arr(<<[topic |-> "x", count |-> 1], [topic |-> "y", count |-> 2]>>),
      Arr(<<[topic |-> "x", count |-> 5], [topic |-> ""]>>) }

AnalyticsData ==
    { [activityUrn |-> "u1", impressions |-> 100],
      [activityUrn |-> "u2", impressions |-> 300],
      [activityUrn |-> "u1", impressions |-> 500,
       engagement |-> [reactions |-> 4, comments |-> 2]],
      [impressions |-> 5] }

AppendKeys == {K_CAPTURED_APIS}
AppendItems == { [note |-> "n"] }
CapturedMessages ==
    { [endpoint |-> "/voyager/api/feed", method |-> "GET", data |-> "d",
       url |-> "https://www.linkedin.com/voyager/api/feed"] }


NoMessage == [type |-> "none"]

\* the page interceptor right after its script has run (part_000)
\* bounds of the models of single objects
MaxXhrCalls == 4
MaxContexts == 3
MaxEvaluations == 2

Contexts == 1 .. MaxContexts

\* new XMLHttpRequest()
NewXhr ==
    [interceptData |-> NULL, listeners |-> <<>>, readyState |-> "unsent",
     sends |-> <<>>]

\* a page context before the script ran
FreshWindow ==
    [loaded |-> FALSE, fetch |-> <<>>, open |-> <<>>, send |-> <<>>,
     json |-> <<>>, parse |-> <<>>, ready |-> <<>>, pc |-> "idle",
     evaluations |-> 0]

READY_EVENT ==
    [type |-> "linkedin-main-interceptor-ready", version |-> "2.3.0"]

\* a page context after the script ran through once
InstalledWindow ==
    [loaded |-> TRUE, fetch |-> <<"capture", "tracking">>,
     open |-> <<"intercept">>, send |-> <<"intercept">>,
     json |-> <<"capture">>, parse |-> <<"capture">>,
     ready |-> <<READY_EVENT>>, pc |-> "idle", evaluations |-> 1]

\* fetchAllConnections has not been called
NotStarted ==
    [pc |-> "idle", maxConnections |-> 0, allConnections |-> <<>>,
     start |-> 0, hasMore |-> TRUE, requests |-> 0, persisted |-> <<>>,
     saved |-> FALSE, result |-> NoMessage]

InitPage ==
    /\ xhr = NewXhr
    /\ windows = [c \in Contexts |-> InstalledWindow]
    /\ paging = NotStarted
    /\ time = 0
    /\ hostCalls = 0
    /\ bus = <<>>
    /\ lastVoyagerUrl = NULL
    /\ lastVoyagerTimestamp = 0
    /\ pendingRequests = {}
    /\ fetches = <<>>
    /\ host = NoMessage
    /\ given = NoMessage
    /\ returned = NoMessage

EmptyStorage == [k \in STORAGE_KEYS |-> NULL]

Init ==
    /\ storage = EmptyStorage
    /\ request = NoMessage
    /\ response = NoMessage
    /\ io = <<>>
    /\ clock = 0
    /\ faults = 0
    /\ inflight = {}
    /\ done = <<>>
    /\ InitPage

Next ==
    \/ \E b \in FeedBatches, getOk, setOk \in BOOLEAN :
           SAVE_FEED_POSTS(b, getOk, setOk)
    \/ \E b \in CommentBatches, getOk, setOk \in BOOLEAN :
           SAVE_COMMENTS(b, getOk, setOk)
    \/ \E b \in MyPostBatches, getOk, setOk \in BOOLEAN :
           SAVE_MY_POSTS(b, getOk, setOk)
    \/ \E d \in FollowerData, getOk, setOk \in BOOLEAN :
           SAVE_FOLLOWERS(d, getOk, setOk)
    \/ \E b \in TrendingBatches, getOk, setOk \in BOOLEAN :
           SAVE_TRENDING(b, getOk, setOk)
    \/ \E d \in AnalyticsData, getOk, setOk \in BOOLEAN :
           POST_ANALYTICS_CAPTURED(d, getOk, setOk)
    \/ \E k \in AppendKeys, d \in AppendItems, getOk, setOk \in BOOLEAN :
           APPEND_DATA(k, d, getOk, setOk)
    \/ \E m \in CapturedMessages, getOk, setOk \in BOOLEAN :
           API_CAPTURED(m, getOk, setOk)

Spec == Init /\ [][Next]_vars

\* requests without a batch, next to one request of each kind that has one
EmptyBatches == {NULL, Arr(<<>>), [note |-> "n"]}

FeedInputs ==
    EmptyBatches \cup {Arr(<<[urn |-> "a", engagementScore |-> 60]>>)}
CommentInputs == EmptyBatches \cup {Arr(<<[urn |-> "c1", likes |-> 3]>>)}
MyPostInputs == EmptyBatches \cup {Arr(<<[urn |-> "p1"]>>)}
TrendingInputs == EmptyBatches \cup {Arr(<<[topic |-> "x", count |-> 1]>>)}
FollowerInputs == {NULL, [followerCount |-> 10]}

NextEmpty ==
    \/ \E b \in FeedInputs, getOk, setOk \in BOOLEAN :
           SAVE_FEED_POSTS(b, getOk, setOk)
    \/ \E b \in CommentInputs, getOk, setOk \in BOOLEAN :
           SAVE_COMMENTS(b, getOk, setOk)
    \/ \E b \in MyPostInputs, getOk, setOk \in BOOLEAN :
           SAVE_MY_POSTS(b, getOk, setOk)
    \/ \E d \in FollowerInputs, getOk, setOk \in BOOLEAN :
           SAVE_FOLLOWERS(d, getOk, setOk)
    \/ \E b \in TrendingInputs, getOk, setOk \in BOOLEAN :
           SAVE_TRENDING(b, getOk, setOk)

SpecEmpty == Init /\ [][NextEmpty]_vars

-----------------------------------------------------------------------------
(* The store at capacity.  A collection that an earlier run filled holds   *)
(* what the handlers themselves write for the messages of that run, here   *)
(* all handled at time 1 and without a fault; the worker then starts over  *)
(* one such persisted store and handles messages that push the collection  *)
(* over its capacity.                                                      *)

Overflow == 100     \* records of the bulk feed batch beyond FEED_CAP
RankSpread == 7        \* distinct ranking values in a bulk batch, minus one

Id(prefix, i) == prefix \o ToString(i)

BulkFeed(n) ==
    [i \in 1..n |-> [urn |-> Id("a", i),
                     engagementScore |-> (i % (RankSpread + 1)) * 15]]
BulkComments(n) ==
    [i \in 1..n |-> [urn |-> Id("c", i), likes |-> i % (RankSpread + 1)]]
BulkMyPosts(n) ==
    [i \in 1..n |-> [urn |-> Id("p", i),
                     engagement |-> [likes |-> i % (RankSpread + 1),
                                     comments |-> i % 2]]]
BulkFollowers(n) ==
    [i \in 1..n |-> [entityUrn |-> Id("f", i), name |-> "n1"]]
BulkTopics(n) == [i \in 1..n |-> [topic |-> Id("t", i), count |-> 1]]

\* message i of the run that filled the collection under key, handled
\* without a fault
Deliver(st, key, i) ==
    CASE key = K_FOLLOWERS ->
           saveFollowersToStorage(st, [followerCount |-> i],
                                  1, TRUE, TRUE).storage
      [] key = K_POST_ANALYTICS ->
           savePostAnalyticsToStorage(
               st, [activityUrn |-> Id("u", i),
                    impressions |-> (i % (RankSpread + 1)) * 100],
               1, TRUE, TRUE).storage
      [] key = K_CAPTURED_APIS ->
           appendToStorage(st, K_CAPTURED_APIS, [note |-> Id("n", i)],
                           1, TRUE, TRUE).storage

\* the store after messages lo..hi of that run
RECURSIVE After(_, _, _, _)
After(st, key, lo, hi) ==
    IF lo > hi THEN st
    ELSE IF lo = hi THEN Deliver(st, key, lo)
    ELSE LET mid == (lo + hi) \div 2
             left == After(st, key, lo, mid)
         IN  IF DOMAIN left = {} THEN After(left, key, mid + 1, hi)
             ELSE After(left, key, mid + 1, hi)

\* the store an earlier run left with the collection under key at capacity
Persisted(key) ==
    CASE key = K_COMMENTS ->
           saveCommentsToStorage(EmptyStorage,
                                 Arr(BulkComments(COMMENTS_CAP)),
                                 1, TRUE, TRUE).storage
      [] key = K_MY_POSTS ->
           saveMyPostsToStorage(EmptyStorage, Arr(BulkMyPosts(MY_POSTS_CAP)),
                                1, TRUE, TRUE).storage
      [] key = K_TRENDING ->
           saveTrendingToStorage(EmptyStorage, Arr(BulkTopics(TRENDING_CAP)),
                                 1, TRUE, TRUE).storage
      [] key = K_FOLLOWERS ->
           saveFollowersToStorage(
               After(EmptyStorage, K_FOLLOWERS, 1, HISTORY_CAP),
               [followers |-> BulkFollowers(FOLLOWERS_CAP)],
               1, TRUE, TRUE).storage
      [] key = K_POST_ANALYTICS ->
           After(EmptyStorage, K_POST_ANALYTICS, 1, POST_ANALYTICS_CAP)
      [] key = K_CAPTURED_APIS ->
           After(EmptyStorage, K_CAPTURED_APIS, 1, LOG_CAP)
      [] OTHER -> EmptyStorage

CapFeedBatches == { Arr(BulkFeed(FEED_CAP + Overflow)) }
CapCommentBatches ==
    { Arr(<<[urn |-> "new1", likes |-> 9], [urn |-> "new2"]>>),
      Arr(<<[urn |-> "c1", likes |-> 9, text |-> "hi"]>>) }
CapMyPostBatches ==
    { Arr(<<[urn |-> "new1", engagement |-> [likes |-> 1, comments |-> 9]],
            [urn |-> "new2", engagement |-> [likes |-> 0]]>>),
      Arr(<<[urn |-> "p2", engagement |-> [likes |-> 50, comments |-> 0]]>>),
      Arr(<<[title |-> "t"]>>) }
CapFollowerData ==
    { [followerCount |-> 7],
      [followers |-> <<[entityUrn |-> "new1"],
                       [entityUrn |-> "f1", name |-> "n2"]>>] }
CapTrendingBatches ==
    { Arr(<<[topic |-> "new1", count |-> 5], [topic |-> "t1", count |-> 2]>>) }
CapAnalyticsData ==
    { [activityUrn |-> "new1", impressions |-> 900],
      [activityUrn |-> "new2"],
      [activityUrn |-> "u1", impressions |-> 50] }

InitCap ==
    /\ \E key \in STORAGE_KEYS : storage = Persisted(key)
    /\ request = NoMessage
    /\ response = NoMessage
    /\ io = <<>>
    /\ clock = 1
    /\ faults = 0
    /\ inflight = {}
    /\ done = <<>>
    /\ InitPage

NextCap ==
    \/ \E b \in CapFeedBatches, getOk, setOk \in BOOLEAN :
           SAVE_FEED_POSTS(b, getOk, setOk)
    \/ \E b \in CapCommentBatches, getOk, setOk \in BOOLEAN :
           SAVE_COMMENTS(b, getOk, setOk)
    \/ \E b \in CapMyPostBatches, getOk, setOk \in BOOLEAN :
           SAVE_MY_POSTS(b, getOk, setOk)
    \/ \E d \in CapFollowerData, getOk, setOk \in BOOLEAN :
           SAVE_FOLLOWERS(d, getOk, setOk)
    \/ \E b \in CapTrendingBatches, getOk, setOk \in BOOLEAN :
           SAVE_TRENDING(b, getOk, setOk)
    \/ \E d \in CapAnalyticsData, getOk, setOk \in BOOLEAN :
           POST_ANALYTICS_CAPTURED(d, getOk, setOk)
    \/ \E k \in AppendKeys, d \in AppendItems, getOk, setOk \in BOOLEAN :
           APPEND_DATA(k, d, getOk, setOk)
    \/ \E m \in CapturedMessages, getOk, setOk \in BOOLEAN :
           API_CAPTURED(m, getOk, setOk)

SpecCap == InitCap /\ [][NextCap]_vars

-----------------------------------------------------------------------------
(* Interleaved requests.  The listener starts an async function per        *)
(* message and returns; a handler runs up to `await getFromStorage(key)'   *)
(* and is suspended there, so a second message can be received, and its    *)
(* get served, before the first handler resumes.  From the resolved get to *)
(* the call of chrome.storage.local.set a handler does not await.          *)

\* switch (message.type), for the save-* and capture messages
Dispatch(msg, st, now, getOk, setOk) ==
    CASE msg.type = "SAVE_FEED_POSTS" ->
           saveFeedPostsToStorage(st, msg.posts, now, getOk, setOk)
      [] msg.type = "SAVE_COMMENTS" ->
           saveCommentsToStorage(st, msg.comments, now, getOk, setOk)
      [] msg.type = "SAVE_MY_POSTS" ->
           saveMyPostsToStorage(st, msg.posts, now, getOk, setOk)
      [] msg.type = "SAVE_FOLLOWERS" ->
           saveFollowersToStorage(st, msg.data, now, getOk, setOk)
      [] msg.type = "SAVE_TRENDING" ->
           saveTrendingToStorage(st, msg.topics, now, getOk, setOk)
      [] msg.type = "POST_ANALYTICS_CAPTURED" ->
           savePostAnalyticsToStorage(st, msg.data, now, getOk, setOk)

\* the key a save-* message works on
StorageKeyOf(type) ==
    CASE type = "SAVE_FEED_POSTS" -> K_FEED_POSTS
      [] type = "SAVE_COMMENTS" -> K_COMMENTS
      [] type = "SAVE_MY_POSTS" -> K_MY_POSTS
      [] type = "SAVE_FOLLOWERS" -> K_FOLLOWERS
      [] type = "SAVE_TRENDING" -> K_TRENDING
      [] type = "POST_ANALYTICS_CAPTURED" -> K_POST_ANALYTICS

RaceMessages ==
    {[type |-> "SAVE_MY_POSTS", posts |-> b] : b \in MyPostBatches}
    \cup {[type |-> "SAVE_COMMENTS", comments |-> b] : b \in CommentBatches}

\* the listener is called with msg; the handler calls getFromStorage, the
\* backend serves the get from the store as it is now, the handler is
\* suspended until the promise resolves
Receive(msg, getOk) ==
    /\ clock + Cardinality(inflight) < MaxRequests
    /\ faults + (IF getOk THEN 0 ELSE 1) <= MaxFaults
    /\ inflight' = inflight \cup {[id |-> clock + Cardinality(inflight) + 1,
                                    msg |-> msg,
                                    read |-> storage,
                                    getOk |-> getOk]}
    /\ faults' = faults + (IF getOk THEN 0 ELSE 1)
    /\ UNCHANGED <<storage, request, response, io, clock, done>>
    /\ UNCHANGED pageVars
    /\ UNCHANGED callVars

\* saveToStorage(key, ...) of a resumed handler and its sendResponse: only
\* the handler's own key is set, whatever the store holds by now
Answer(r, out, setOk) ==
    LET key == StorageKeyOf(r.msg.type)
        sets == {i \in DOMAIN out.io : out.io[i].op = "set"}
        lost == IF sets # {} /\ ~setOk THEN 1 ELSE 0
    IN  /\ faults + lost <= MaxFaults
        /\ storage' = IF sets # {} /\ setOk
                      THEN [storage EXCEPT ![key] = out.storage[key]]
                      ELSE storage
        /\ request' = r.msg
        /\ response' = out.response
        /\ io' = out.io
        /\ clock' = clock + 1
        /\ faults' = faults + lost
        /\ inflight' = inflight \ {r}
        /\ done' = Append(done, [msg |-> r.msg,
                                 read |-> IF r.getOk THEN r.read[key] ELSE NULL,
                                 response |-> out.response,
                                 io |-> out.io])
        /\ UNCHANGED pageVars
        /\ UNCHANGED callVars

\* the suspended handler of the id-th message
Flight(id) == CHOOSE r \in inflight : r.id = id

\* the handler resumed with a current read of the store
ResumeFresh(id, setOk) ==
    /\ id \in {r.id : r \in inflight}
    /\ Answer(Flight(id),
              Dispatch(Flight(id).msg, storage, clock + 1, Flight(id).getOk,
                       setOk),
              setOk)

\* the get of the id-th message's handler resolves: it merges the message
\* into what the get returned, calls saveToStorage with the result and answers
Resume(id, setOk) ==
    /\ id \in {r.id : r \in inflight}
    /\ Answer(Flight(id),
              Dispatch(Flight(id).msg, Flight(id).read, clock + 1,
                       Flight(id).getOk, setOk),
              setOk)

NextRace ==
    \/ \E msg \in RaceMessages, getOk \in BOOLEAN : Receive(msg, getOk)
    \/ \E id \in 1 .. MaxRequests, setOk \in BOOLEAN : Resume(id, setOk)

SpecRace == Init /\ [][NextRace]_vars

-----------------------------------------------------------------------------
(* The other cases of the listener's switch.  What the browser's cookie    *)
(* jar and the network return is an input of the action; the profile,      *)
(* analytics, connections and posts keys of the direct API client are not  *)
(* part of the modelled store.                                             *)

IoGetAll(ok) == [op |-> "get", key |-> "*", ok |-> ok]
IoClear(ok) == [op |-> "clear", key |-> "*", ok |-> ok]

\* chrome.storage.local.get(null): the keys that have been set
AllItems(st) == [k \in {k \in STORAGE_KEYS : ~IsNull(st[k])} |-> st[k]]

getAllStoredData(st, ok) ==
    IF ok
    THEN [success |-> TRUE, data |-> AllItems(st)]
    ELSE [success |-> FALSE, error |-> "get failed"]

clearStorage(st, ok) ==
    IF ok
    THEN [storage |-> EmptyStorage, result |-> [success |-> TRUE]]
    ELSE [storage |-> st,
          result |-> [success |-> FALSE, error |-> "clear failed"]]

\* CLEAR_DATA among merge requests.  The store may hold comments that an
\* earlier SAVE_COMMENTS request with the batch SeedComments left there
SeedComments == Arr(<<[urn |-> "c0", likes |-> 1]>>)

SeededStorage ==
    saveCommentsToStorage(EmptyStorage, SeedComments, 0, TRUE, TRUE).storage

InitReset ==
    /\ storage \in {EmptyStorage, SeededStorage}
    /\ request = NoMessage
    /\ response = NoMessage
    /\ io = <<>>
    /\ clock = 0
    /\ faults = 0
    /\ inflight = {}
    /\ done = <<>>
    /\ InitPage

\* case 'CLEAR_DATA': response = await clearStorage().  The clear acts on
\* the store as it is when it runs; handlers suspended at their get are not
\* affected.  `pending' is the number of those handlers
Reset(ok) ==
    /\ clock + Cardinality(inflight) < MaxRequests
    /\ faults + (IF ok THEN 0 ELSE 1) <= MaxFaults
    /\ \E out \in {clearStorage(storage, ok)} :
           /\ storage' = out.storage
           /\ response' = out.result
           /\ done' = Append(done, [msg |-> [type |-> "CLEAR_DATA"],
                                    pending |-> Cardinality(inflight),
                                    response |-> out.result,
                                    io |-> <<IoClear(ok)>>])
    /\ request' = [type |-> "CLEAR_DATA"]
    /\ io' = <<IoClear(ok)>>
    /\ clock' = clock + 1
    /\ faults' = faults + (IF ok THEN 0 ELSE 1)
    /\ UNCHANGED inflight
    /\ UNCHANGED pageVars
    /\ UNCHANGED callVars

NextReset ==
    \/ \E msg \in RaceMessages, getOk \in BOOLEAN : Receive(msg, getOk)
    \/ \E id \in 1 .. MaxRequests, setOk \in BOOLEAN : Resume(id, setOk)
    \/ \E ok \in BOOLEAN : Reset(ok)

SpecReset == InitReset /\ [][NextReset]_vars

\* the cookie jar: the value of the auth cookie, or null
AuthTokens == {NULL, [value |-> "AQED"]}

getLinkedInCookies(token, ok) ==
    IF ok
    THEN [success |-> TRUE,
          cookies |-> IF IsNull(token) THEN <<>> ELSE [li_at |-> token.value],
          authToken |-> token,
          csrfToken |-> NULL,
          isAuthenticated |-> ~IsNull(token)]
    ELSE [success |-> FALSE, error |-> "cookies failed",
          isAuthenticated |-> FALSE]

\* checkAuthentication returns the flag and the token only
checkAuthentication(token) ==
    [isAuthenticated |-> ~IsNull(token), token |-> token]

exportAsJSON(st, now, getOk) ==
    LET allData == getAllStoredData(st, getOk)
    IN  IF ~allData.success
        THEN [success |-> FALSE, error |-> allData.error]
        ELSE [success |-> TRUE,
              content |-> [exportedAt |-> now, version |-> "1.0.0",
                           data |-> allData.data],
              filename |-> <<"linkedin-data-", now, ".json">>]

exportAsCSV(st, dataKey, now, getOk) ==
    LET result == getFromStorage(st, dataKey, getOk)
        data == Prop(result, "data", NULL)
    IN  IF ~result.success \/ IsNull(data)
        THEN [success |-> FALSE, error |-> "No data to export"]
        ELSE IF ~IsArray(data) \/ Len(data.array) = 0
        THEN [success |-> FALSE, error |-> "No data to export"]
        ELSE IF \E i \in DOMAIN data.array : IsNull(data.array[i])
        THEN \* typeof null === 'object': Object.keys(null) throws, and
             \* nothing in exportAsCSV catches it
             [threw |-> "Cannot convert undefined or null to object"]
        ELSE [success |-> TRUE,
              content |->
                  [headers |-> UNION {DOMAIN data.array[i] :
                                          i \in DOMAIN data.array},
                   rows |-> data.array],
              filename |-> <<"linkedin-", dataKey, "-", now, ".csv">>]

\* case 'GET_STATS'
getStats(st, getOk) ==
    LET allData == getAllStoredData(st, getOk)
        capturedApis ==
            IF allData.success
            THEN Prop(Prop(allData.data, K_CAPTURED_APIS, Arr(<<>>)),
                      "array", <<>>)
            ELSE <<>>
    IN  IF allData.success
        THEN [success |-> TRUE,
              stats |-> [apisCaptured |-> Len(capturedApis),
                         hasProfile |-> FALSE,
                         hasAnalytics |-> FALSE,
                         hasConnections |-> FALSE,
                         connectionsCount |-> 0,
                         totalConnections |-> 0,
                         lastCapture |->
                             IF Len(capturedApis) > 0
                             THEN [at |-> capturedApis[Len(capturedApis)]
                                              .capturedAt]
                             ELSE NULL]]
        ELSE allData

\* what a direct API call returns: fetchLinkedInAPI's results
FetchOutcomes ==
    { [success |-> TRUE, data |-> [source |-> "direct_api"]],
      [success |-> FALSE, error |-> "Not authenticated"],
      [success |-> FALSE, error |-> "HTTP 403"] }

FetchTypes ==
    {"FETCH_PROFILE", "FETCH_ANALYTICS", "FETCH_CONNECTIONS",
     "FETCH_CONNECTIONS_SUMMARY", "FETCH_ALL_CONNECTIONS", "FETCH_POSTS",
     "FETCH_FEED_POSTS"}

\* a message type the switch has no case for
UnknownTypes == {"PING", ""}

GET_COOKIES(token, ok) ==
    /\ clock < MaxRequests
    /\ Respond([type |-> "GET_COOKIES"],
               [storage |-> storage, io |-> <<>>,
                response |-> getLinkedInCookies(token, ok)])

CHECK_AUTH(token) ==
    /\ clock < MaxRequests
    /\ Respond([type |-> "CHECK_AUTH"],
               [storage |-> storage, io |-> <<>>,
                response |-> checkAuthentication(token)])

SAVE_DATA(key, data, setOk) ==
    /\ clock < MaxRequests
    /\ Respond([type |-> "SAVE_DATA", key |-> key, data |-> data],
               [storage |-> saveToStorage(storage, key, data, setOk).storage,
                io |-> <<IoSet(key, setOk)>>,
                response |-> saveToStorage(storage, key, data, setOk).result])

GET_DATA(key, getOk) ==
    /\ clock < MaxRequests
    /\ Respond([type |-> "GET_DATA", key |-> key],
               [storage |-> storage, io |-> <<IoGet(key, getOk)>>,
                response |-> getFromStorage(storage, key, getOk)])

GET_ALL_DATA(getOk) ==
    /\ clock < MaxRequests
    /\ Respond([type |-> "GET_ALL_DATA"],
               [storage |-> storage, io |-> <<IoGetAll(getOk)>>,
                response |-> getAllStoredData(storage, getOk)])

CLEAR_DATA(ok) ==
    /\ clock < MaxRequests
    /\ Respond([type |-> "CLEAR_DATA"],
               [storage |-> clearStorage(storage, ok).storage,
                io |-> <<IoClear(ok)>>,
                response |-> clearStorage(storage, ok).result])

EXPORT_JSON(getOk) ==
    /\ clock < MaxRequests
    /\ Respond([type |-> "EXPORT_JSON"],
               [storage |-> storage, io |-> <<IoGetAll(getOk)>>,
                response |-> exportAsJSON(storage, clock + 1, getOk)])

\* what the listener passes to sendResponse: the switch runs in an async
\* function without try/catch, so when the handler throws the function
\* rejects before sendResponse(response) and nothing is sent
Sent(result) == IF "threw" \in DOMAIN result THEN NoMessage ELSE result

EXPORT_CSV(dataKey, getOk) ==
    /\ clock < MaxRequests
    /\ Respond([type |-> "EXPORT_CSV", dataKey |-> dataKey],
               [storage |-> storage, io |-> <<IoGet(dataKey, getOk)>>,
                response |-> Sent(exportAsCSV(storage, dataKey, clock + 1,
                                              getOk))])

GET_STATS(getOk) ==
    /\ clock < MaxRequests
    /\ Respond([type |-> "GET_STATS"],
               [storage |-> storage, io |-> <<IoGetAll(getOk)>>,
                response |-> getStats(storage, getOk)])

FETCH(type, result) ==
    /\ clock < MaxRequests
    /\ Respond([type |-> type],
               [storage |-> storage, io |-> <<>>, response |-> result])

FETCH_ALL_DATA(profile, analytics, connections) ==
    /\ clock < MaxRequests
    /\ Respond([type |-> "FETCH_ALL_DATA"],
               [storage |-> storage, io |-> <<>>,
                response |->
                    [success |-> TRUE,
                     profile |-> profile,
                     analytics |-> analytics,
                     connections |-> connections,
                     posts |-> [success |-> TRUE,
                                data |-> [posts |-> <<>>,
                                          topHits |-> <<>>]]]])

\* the default case answering like a handled one
UNKNOWN_Accepted(type) ==
    /\ clock < MaxRequests
    /\ Respond([type |-> type],
               [storage |-> storage, io |-> <<>>,
                response |-> [success |-> TRUE]])

\* default: of the switch
UNKNOWN(type) ==
    /\ clock < MaxRequests
    /\ Respond([type |-> type],
               [storage |-> storage, io |-> <<>>,
                response |-> [success |-> FALSE,
                              error |-> "Unknown message type"]])

\* data a SAVE_DATA message carries
SaveItems ==
    { Arr(<<[note |-> "n", capturedAt |-> 0]>>),
      Arr(<<NULL, [note |-> "n", capturedAt |-> 0]>>),
      [note |-> "n"] }

NextListener ==
    \/ Next
    \/ \E token \in AuthTokens, ok \in BOOLEAN : GET_COOKIES(token, ok)
    \/ \E token \in AuthTokens : CHECK_AUTH(token)
    \/ \E key \in {K_CAPTURED_APIS, K_COMMENTS}, data \in SaveItems,
          setOk \in BOOLEAN :
           SAVE_DATA(key, data, setOk)
    \/ \E key \in {K_CAPTURED_APIS, K_COMMENTS}, getOk \in BOOLEAN :
           GET_DATA(key, getOk)
    \/ \E getOk \in BOOLEAN : GET_ALL_DATA(getOk)
    \/ \E ok \in BOOLEAN : CLEAR_DATA(ok)
    \/ \E getOk \in BOOLEAN : EXPORT_JSON(getOk)
    \/ \E key \in {K_CAPTURED_APIS, K_COMMENTS}, getOk \in BOOLEAN :
           EXPORT_CSV(key, getOk)
    \/ \E getOk \in BOOLEAN : GET_STATS(getOk)
    \/ \E type \in FetchTypes, result \in FetchOutcomes : FETCH(type, result)
    \/ \E p, a, c \in FetchOutcomes : FETCH_ALL_DATA(p, a, c)
    \/ \E type \in UnknownTypes : UNKNOWN(type)

SpecListener == Init /\ [][NextListener]_vars

-----------------------------------------------------------------------------
(* The page interceptor (main world script).  A string is modelled as a    *)
(* sequence of pieces: separators and words.  The URLs and the patterns    *)
(* of the model are cut into pieces at the same places, so that `includes' *)
(* is the search of a contiguous run of pieces.                            *)

\* s.includes(p)
Includes(s, p) ==
    \E k \in 0 .. (Len(s) - Len(p)) : \A i \in DOMAIN p : s[k + i] = p[i]

\* c.toLowerCase() of one piece
LowerPiece(c) ==
    CASE c = "Feed" -> "feed"
      [] c = "Messaging" -> "messaging"
      [] c = "GraphQL" -> "graphql"
      [] c = "Dash" -> "dash"
      [] c = "Main" -> "main"
      [] c = "Update" -> "update"
      [] c = "Recommended" -> "recommended"
      [] c = "Profile" -> "profile"
      [] c = "Member" -> "member"
      [] c = "Activity" -> "activity"
      [] c = "Social" -> "social"
      [] c = "Comments" -> "comments"
      [] c = "Replies" -> "replies"
      [] c = "Reactions" -> "reactions"
      [] c = "Reactors" -> "reactors"
      [] c = "Mailbox" -> "mailbox"
      [] c = "Counts" -> "counts"
      [] c = "Conversations" -> "conversations"
      [] c = "Messages" -> "messages"
      [] c = "Identity" -> "identity"
      [] c = "Cards" -> "cards"
      [] c = "Relationship" -> "relationship"
      [] c = "Connection" -> "connection"
      [] c = "Followers" -> "followers"
      [] c = "Creator" -> "creator"
      [] c = "Content" -> "content"
      [] c = "Analytics" -> "analytics"
      [] c = "Wvmp" -> "wvmp"
      [] c = "queryId=" -> "queryid="
      [] OTHER -> c

\* s.toLowerCase()
Lower(s) == [i \in DOMAIN s |-> LowerPiece(s[i])]

\* the pieces that are not made of letters only
Separators == {"/", "?", "&", ".", "=", "queryId=", "https://", "-", "1"}

\* const capturePatterns
capturePatterns ==
    << <<"/", "voyager", "/", "api", "/">>,
       <<"/", "voyager", "Messaging", "GraphQL", "/">>,
       <<"/", "li", "/", "track">> >>

\* a filter that lets every URL through
shouldCaptureAll(url) == TRUE

\* capturePatterns.some(p => String(url).includes(p))
shouldCapture(url) ==
    \E i \in DOMAIN capturePatterns : Includes(url, capturePatterns[i])

\* a table with a row of one more category
graphqlCategoriesMore ==
    << [cat |-> "jobs", patterns |-> << <<"messenger", "Messages">> >>] >>

\* const graphqlCategories, in the order of Object.entries
graphqlCategories ==
    << [cat |-> "feed",
        patterns |-> << <<"voyager", "Feed", "Dash", "Main", "Feed">>,
                        <<"voyager", "Feed", "Dash", "Feed", "Update">>,
                        <<"voyager", "Feed", "Dash", "Recommended", "Feed">> >>],
       [cat |-> "myPosts",
        patterns |-> << <<"voyager", "Feed", "Dash", "Profile", "Update", "s">>,
                        <<"voyager", "Feed", "Dash", "Member", "Activity",
                          "Feed">> >>],
       [cat |-> "comments",
        patterns |-> << <<"voyager", "Social", "Dash", "Comments">>,
                        <<"voyager", "Social", "Dash", "Replies">> >>],
       [cat |-> "reactions",
        patterns |-> << <<"voyager", "Social", "Dash", "Reactions">>,
                        <<"voyager", "Social", "Dash", "Reactors">> >>],
       [cat |-> "messaging",
        patterns |-> << <<"messenger", "Mailbox", "Counts">>,
                        <<"messenger", "Conversations">>,
                        <<"messenger", "Messages">> >>],
       [cat |-> "profile",
        patterns |-> << <<"voyager", "Identity", "Dash", "Profile", "s">>,
                        <<"voyager", "Identity", "Dash", "Profile",
                          "Cards">> >>],
       [cat |-> "network",
        patterns |-> << <<"voyager", "Relationship", "s", "Dash",
                          "Connection", "s">>,
                        <<"voyager", "Relationship", "s", "Dash",
                          "Followers">> >>],
       [cat |-> "analytics",
        patterns |-> << <<"voyager", "Creator", "Dash", "Analytics">>,
                        <<"voyager", "Content", "Dash", "Analytics">>,
                        <<"voyager", "Identity", "Dash", "Wvmp">> >>] >>

\* the length of the run of letter pieces of s that starts at position from
RECURSIVE Letters(_, _)
Letters(s, from) ==
    IF from > Len(s) \/ s[from] \in Separators
    THEN 0
    ELSE 1 + Letters(s, from + 1)

\* String(url).match(/queryId=([a-zA-Z]+)/): the first match, or null
extractQueryId(url) ==
    LET at == {k \in DOMAIN url : url[k] = "queryId=" /\ Letters(url, k + 1) > 0}
    IN  IF at = {}
        THEN NULL
        ELSE LET k == CHOOSE k \in at : \A j \in at : k <= j
             IN  [string |-> [i \in 1 .. Letters(url, k + 1) |-> url[k + i]]]

\* the last category one of whose patterns the query id contains
CategoryFromLast(queryId, n) ==
    LET hits == {k \in n .. Len(graphqlCategories) :
                     \E i \in DOMAIN graphqlCategories[k].patterns :
                         Includes(Lower(queryId),
                                  Lower(graphqlCategories[k].patterns[i]))}
    IN  IF hits = {}
        THEN NULL
        ELSE [string |-> graphqlCategories[CHOOSE k \in hits :
                                              \A j \in hits : j <= k].cat]

\* the first category one of whose patterns the query id contains
RECURSIVE CategoryFrom(_, _)
CategoryFrom(queryId, n) ==
    IF n > Len(graphqlCategories)
    THEN NULL
    ELSE IF \E i \in DOMAIN graphqlCategories[n].patterns :
                Includes(Lower(queryId),
                         Lower(graphqlCategories[n].patterns[i]))
         THEN [string |-> graphqlCategories[n].cat]
         ELSE CategoryFrom(queryId, n + 1)

categorize(url) ==
    LET queryId == extractQueryId(url)
        byQuery == IF IsNull(queryId) THEN NULL
                   ELSE CategoryFrom(queryId.string, 1)
        urlStr == Lower(url)
    IN  IF ~IsNull(byQuery) THEN byQuery.string
        ELSE IF Includes(urlStr, <<"feed">>) THEN "feed"
        ELSE IF Includes(urlStr, <<"messaging">>) THEN "messaging"
        ELSE IF Includes(urlStr, <<"identity">>)
                \/ Includes(urlStr, <<"profile">>) THEN "profile"
        ELSE IF Includes(urlStr, <<"relationship">>)
                \/ Includes(urlStr, <<"connection">>) THEN "network"
        ELSE IF Includes(urlStr, <<"analytics">>)
                \/ Includes(urlStr, <<"wvmp">>) THEN "analytics"
        ELSE "other"

\* new URL(url, window.location.origin).pathname
getPathname(url) ==
    LET from == IF Len(url) > 0 /\ url[1] = "https://" THEN 3 ELSE 1
        stops == {k \in from .. Len(url) : url[k] = "?"}
        to == IF stops = {} THEN Len(url)
              ELSE (CHOOSE k \in stops : \A j \in stops : k <= j) - 1
    IN  [i \in 1 .. (to - from + 1) |-> url[i + from - 1]]

-----------------------------------------------------------------------------
(* The four hooks.  A decoded JSON value is NULL, a primitive [prim |-> n] *)
(* or an object (a record); the result of a call of an original primitive  *)
(* is [value |-> v] or [threw |-> error].  An exception inside the capture *)
(* code is an input of the step: "capture" for one thrown while cloning or *)
(* classifying, "dispatch" for one thrown by document.dispatchEvent.       *)

MaxCalls == 3       \* calls of wrapped primitives and returns of fetch
MaxTime == 5000     \* the page clock stops there

RECENCY_WINDOW == 5000
PENDING_TTL == 10000

Invalid == [invalid |-> TRUE]

\* `if (v)' for a decoded value
JsTruthy(v) == ~IsNull(v) /\ ("prim" \in DOMAIN v => v.prim # 0)

\* result && typeof result === 'object'
IsObject(v) == ~IsNull(v) /\ "prim" \notin DOMAIN v

\* (result.included || result.data || result.elements)
LooksLikeApiResponse(v) ==
    \E f \in {"included", "data", "elements"} :
        f \in DOMAIN v /\ JsTruthy(v[f])

\* the original JSON decoder applied to a body
Decode(body) ==
    IF body = Invalid THEN [threw |-> "SyntaxError"] ELSE [value |-> body]

Threw(outcome) == "threw" \in DOMAIN outcome

\* an event whose category depends on the tier that dispatches it
CapturedByTier(type, url, method, data, t, of) ==
    [type |-> type,
     url |-> url,
     endpoint |-> getPathname(url),
     method |-> method,
     category |-> IF type = "json-parse" THEN "feed" ELSE categorize(url),
     queryId |-> extractQueryId(url),
     isGraphQL |-> Includes(url, <<"/", "graphql">>),
     data |-> data,
     timestamp |-> t,
     of |-> of]

\* the detail of a linkedin-api-captured event; `of' is not a field of the
\* source's event: it names the response the payload was decoded from
\* (0 when the decoded text is no response body)
Captured(type, url, method, data, t, of) ==
    [type |-> type,
     url |-> url,
     endpoint |-> getPathname(url),
     method |-> method,
     category |-> categorize(url),
     queryId |-> extractQueryId(url),
     isGraphQL |-> Includes(url, <<"/", "graphql">>),
     data |-> data,
     timestamp |-> t,
     of |-> of]

\* dispatch(data): an exception of dispatchEvent is caught inside
dispatch(events, data, fails) ==
    IF fails = "dispatch" THEN events ELSE Append(events, data)

\* Response.prototype.json wrapper
ResponseJson(events, url, original, t, fails, of) ==
    IF Threw(original)
    THEN [outcome |-> original, bus |-> events]
    ELSE IF shouldCapture(url) /\ JsTruthy(original.value)
    THEN [outcome |-> original,
          bus |-> IF fails = "capture"
                  THEN events
                  ELSE dispatch(events,
                                Captured("response-json", url, "GET",
                                         original.value, t, of),
                                fails)]
    ELSE [outcome |-> original, bus |-> events]

\* (now - lastVoyagerTimestamp) <= 5000
RecentInclusive(t, stamp) == t - stamp <= RECENCY_WINDOW

\* (now - lastVoyagerTimestamp) < 5000
Recent(t, stamp) == t - stamp < RECENCY_WINDOW

\* JSON.parse wrapper whose capture code is not inside try
JSONParseUnguarded(events, pointer, stamp, original, t, fails, of) ==
    IF Threw(original)
    THEN [outcome |-> original, bus |-> events, lastVoyagerUrl |-> pointer]
    ELSE IF ~IsNull(pointer) /\ Recent(t, stamp)
            /\ IsObject(original.value)
            /\ LooksLikeApiResponse(original.value)
    THEN IF fails # "none"
         THEN [outcome |-> [threw |-> fails], bus |-> events,
               lastVoyagerUrl |-> pointer]
         ELSE [outcome |-> original,
               bus |-> IF categorize(pointer.url) = "feed"
                          \/ Includes(pointer.url, <<"Feed">>)
                       THEN Append(events,
                                   Captured("json-parse", pointer.url, "GET",
                                            original.value, t, of))
                       ELSE events,
               lastVoyagerUrl |-> NULL]
    ELSE [outcome |-> original, bus |-> events, lastVoyagerUrl |-> pointer]

\* the pointer left after a match, if it were kept
PointerKept(pointer) == pointer

\* lastVoyagerUrl = null after a match: "clear to avoid duplicate captures"
PointerAfterMatch(pointer) == NULL

\* JSON.parse wrapper
JSONParse(events, pointer, stamp, original, t, fails, of) ==
    IF Threw(original)
    THEN [outcome |-> original, bus |-> events, lastVoyagerUrl |-> pointer]
    ELSE IF ~IsNull(pointer) /\ Recent(t, stamp)
            /\ IsObject(original.value)
            /\ LooksLikeApiResponse(original.value)
    THEN IF fails = "capture"
         THEN \* thrown by categorize: caught, the pointer is not cleared
              [outcome |-> original, bus |-> events,
               lastVoyagerUrl |-> pointer]
         ELSE [outcome |-> original,
               bus |-> IF categorize(pointer.url) = "feed"
                          \/ Includes(pointer.url, <<"Feed">>)
                       THEN dispatch(events,
                                     Captured("json-parse", pointer.url, "GET",
                                              original.value, t, of),
                                     fails)
                       ELSE events,
               lastVoyagerUrl |-> PointerAfterMatch(pointer)]
    ELSE [outcome |-> original, bus |-> events, lastVoyagerUrl |-> pointer]

\* window.fetch, capture wrapper, once the original fetch has settled: a
\* rejection passes through the await; otherwise the response is returned
\* after the capture code, whose clone.json() goes through the
\* Response.prototype.json wrapper
FetchCapture(events, req, settled, t, fails, of) ==
    IF "rejected" \in DOMAIN settled
    THEN [outcome |-> settled, bus |-> events]
    ELSE IF ~shouldCapture(req.url) \/ fails = "capture" \/ ~settled.json
    THEN [outcome |-> settled, bus |-> events]
    ELSE LET parsed == ResponseJson(events, req.url, Decode(settled.body),
                                    t, fails, of)
         IN  [outcome |-> settled,
              bus |-> IF ~Threw(parsed.outcome)
                         /\ JsTruthy(parsed.outcome.value)
                      THEN dispatch(parsed.bus,
                                    Captured("fetch", req.url, req.method,
                                             parsed.outcome.value, t, of),
                                    fails)
                      ELSE parsed.bus]

\* the finally block of the tracking wrapper
Pruned(pending, t) == {r \in pending : ~(t - r.timestamp > PENDING_TTL)}

\* the load listener of XMLHttpRequest.prototype.send: JSON.parse is the
\* wrapped one by the time the listener runs
XhrLoad(events, pointer, stamp, req, result, t, fails, of) ==
    IF shouldCapture(req.url) /\ result.status >= 200 /\ result.status < 300
       /\ result.json
    THEN LET parsed == JSONParse(events, pointer, stamp, Decode(result.body),
                                 t, fails, of)
         IN  IF ~Threw(parsed.outcome) /\ JsTruthy(parsed.outcome.value)
                /\ fails # "capture"
             THEN [bus |-> dispatch(parsed.bus,
                                    Captured("xhr", req.url, req.method,
                                             parsed.outcome.value, t, of),
                                    fails),
                   lastVoyagerUrl |-> parsed.lastVoyagerUrl]
             ELSE [bus |-> parsed.bus,
                   lastVoyagerUrl |-> parsed.lastVoyagerUrl]
    ELSE [bus |-> events, lastVoyagerUrl |-> pointer]

\* the requests the host page makes
U_FEED ==
    <<"https://", "www.linkedin.com", "/", "voyager", "/", "api", "/",
      "feed", "/", "updates">>
U_MY_POSTS ==
    <<"https://", "www.linkedin.com", "/", "voyager", "/", "api", "/",
      "graphql", "?", "queryId=", "voyager", "Feed", "Dash", "Profile",
      "Update", "s", ".", "1">>
U_PROFILE ==
    <<"https://", "www.linkedin.com", "/", "voyager", "/", "api", "/",
      "identity", "/", "profile", "s">>
U_MESSAGING ==
    <<"https://", "www.linkedin.com", "/", "voyager", "Messaging", "GraphQL",
      "/", "graphql", "?", "queryId=", "messenger", "Conversations">>
U_TRACK == <<"https://", "www.linkedin.com", "/", "li", "/", "track">>
U_STATIC == <<"https://", "static.licdn.com", "/", "sc", "/", "feed", ".", "js">>

\* the requests made with fetch
Requests ==
    { [url |-> U_FEED, method |-> "GET"],
      [url |-> U_MY_POSTS, method |-> "GET"],
      [url |-> U_PROFILE, method |-> "GET"],
      [url |-> U_STATIC, method |-> "GET"] }

\* the requests made with XMLHttpRequest
XhrRequests ==
    { [url |-> U_MESSAGING, method |-> "POST"],
      [url |-> U_TRACK, method |-> "POST"],
      [url |-> U_STATIC, method |-> "GET"] }

V_INCLUDED == [included |-> Arr(<<>>)]
V_DATA == [data |-> [status |-> [prim |-> 1]]]
V_NO_DATA == [data |-> NULL]
V_ELEMENTS == [elements |-> Arr(<<>>)]
V_OTHER == [status |-> [prim |-> 1]]

DecodedValues == {V_DATA, V_NO_DATA, V_ELEMENTS, V_OTHER}

\* how the original fetch settles
Settlements ==
    { [rejected |-> "TypeError"],
      [json |-> TRUE, body |-> V_INCLUDED],
      [json |-> TRUE, body |-> NULL],
      [json |-> TRUE, body |-> Invalid],
      [json |-> FALSE, body |-> V_INCLUDED] }

\* status, content type and responseText of a loaded XMLHttpRequest
XhrResults ==
    { [status |-> 200, json |-> TRUE, body |-> V_INCLUDED],
      [status |-> 200, json |-> FALSE, body |-> V_INCLUDED],
      [status |-> 404, json |-> TRUE, body |-> V_INCLUDED] }

Failures == {"none", "capture", "dispatch"}

\* the texts the host decodes, and the exception inside the capture code
ParseCases ==
    {[body |-> b, fails |-> "none"] : b \in DecodedValues \cup {Invalid}}
    \cup {[body |-> V_DATA, fails |-> f] : f \in Failures}

\* the page clock advances by d ms
TickSteps == {4999, 5000}

\* what the original primitive did and what the host got from the wrapper
Saw(call, original, observed) ==
    [call |-> call, original |-> original, observed |-> observed]

\* host: fetch(url, init).  The tracking wrapper runs up to its await
FetchCall(req) ==
    /\ hostCalls < MaxCalls
    /\ hostCalls' = hostCalls + 1
    /\ fetches' = Append(fetches, [id |-> hostCalls + 1, req |-> req,
                                   at |-> time,
                                   state |-> "pending", used |-> FALSE,
                                   settled |-> NULL])
    /\ IF shouldCapture(req.url)
       THEN /\ pendingRequests' =
                   pendingRequests \cup {[id |-> hostCalls + 1,
                                          url |-> req.url,
                                          timestamp |-> time]}
            /\ lastVoyagerUrl' = [url |-> req.url]
            /\ lastVoyagerTimestamp' = time
       ELSE UNCHANGED <<pendingRequests, lastVoyagerUrl, lastVoyagerTimestamp>>
    /\ host' = Saw("fetch", [pending |-> TRUE], [pending |-> TRUE])
    /\ UNCHANGED <<time, bus>>
    /\ UNCHANGED workerVars
    /\ UNCHANGED callVars

\* the original fetch of call i settles: the capture wrapper looks at the
\* response, the tracking wrapper prunes its Map, the host's promise settles
FetchSettle(i, settled, fails) ==
    /\ i \in DOMAIN fetches
    /\ fetches[i].state = "pending"
    /\ hostCalls < MaxCalls
    /\ hostCalls' = hostCalls + 1
    /\ fetches' = [fetches EXCEPT ![i].state = "settled",
                                  ![i].settled = settled]
    /\ \E out \in {FetchCapture(bus, fetches[i].req, settled, time, fails,
                                fetches[i].id)} :
           /\ bus' = out.bus
           /\ host' = Saw("fetch", settled, out.outcome)
    /\ pendingRequests' = Pruned(pendingRequests, time)
    /\ UNCHANGED <<time, lastVoyagerUrl, lastVoyagerTimestamp>>
    /\ UNCHANGED workerVars
    /\ UNCHANGED callVars

\* host: response.json() on the response of call i
HostJson(i, fails) ==
    /\ hostCalls < MaxCalls
    /\ i \in DOMAIN fetches
    /\ fetches[i].state = "settled"
    /\ "rejected" \notin DOMAIN fetches[i].settled
    /\ ~fetches[i].used
    /\ hostCalls' = hostCalls + 1
    /\ fetches' = [fetches EXCEPT ![i].used = TRUE]
    /\ \E out \in {ResponseJson(bus, fetches[i].req.url,
                                Decode(fetches[i].settled.body), time, fails,
                                fetches[i].id)} :
           /\ bus' = out.bus
           /\ host' = Saw("response.json", Decode(fetches[i].settled.body),
                          out.outcome)
    /\ UNCHANGED <<time, lastVoyagerUrl, lastVoyagerTimestamp,
                   pendingRequests>>
    /\ UNCHANGED workerVars
    /\ UNCHANGED callVars

\* host: JSON.parse(text); of names the response whose body the text is
HostParse(body, of, fails) ==
    /\ hostCalls < MaxCalls
    /\ of \in {0} \cup {fetches[i].id : i \in DOMAIN fetches}
    /\ hostCalls' = hostCalls + 1
    /\ \E out \in {JSONParse(bus, lastVoyagerUrl, lastVoyagerTimestamp,
                             Decode(body), time, fails, of)} :
           /\ bus' = out.bus
           /\ lastVoyagerUrl' = out.lastVoyagerUrl
           /\ host' = [call |-> "JSON.parse", original |-> Decode(body),
                       observed |-> out.outcome, fault |-> fails]
    /\ UNCHANGED <<time, lastVoyagerTimestamp, pendingRequests, fetches>>
    /\ UNCHANGED workerVars
    /\ UNCHANGED callVars

\* host: xhr.open(method, url); xhr.send(); the load event fires
Xhr(req, result, fails) ==
    /\ hostCalls < MaxCalls
    /\ hostCalls' = hostCalls + 1
    /\ \E out \in {XhrLoad(bus, lastVoyagerUrl, lastVoyagerTimestamp, req,
                           result, time, fails, hostCalls + 1)} :
           /\ bus' = out.bus
           /\ lastVoyagerUrl' = out.lastVoyagerUrl
    /\ host' = Saw("xhr.send", [value |-> NULL], [value |-> NULL])
    /\ UNCHANGED <<time, lastVoyagerTimestamp, pendingRequests, fetches>>
    /\ UNCHANGED workerVars
    /\ UNCHANGED callVars

Tick(d) ==
    /\ time + d <= MaxTime
    /\ time' = time + d
    /\ UNCHANGED <<hostCalls, bus, lastVoyagerUrl, lastVoyagerTimestamp,
                   pendingRequests, fetches, host>>
    /\ UNCHANGED workerVars
    /\ UNCHANGED callVars

NextPage ==
    \/ \E req \in Requests : FetchCall(req)
    \/ \E i \in 1 .. MaxCalls, settled \in Settlements,
          fails \in {"none", "capture"} :
           FetchSettle(i, settled, fails)
    \/ \E i \in 1 .. MaxCalls, fails \in {"none", "dispatch"} :
           HostJson(i, fails)
    \/ \E c \in ParseCases, of \in 0 .. MaxCalls :
           HostParse(c.body, of, c.fails)
    \/ \E req \in XhrRequests, result \in XhrResults,
          fails \in {"none", "dispatch"} :
           Xhr(req, result, fails)
    \/ \E d \in TickSteps : Tick(d)

SpecPage == Init /\ [][NextPage]_vars

\* the page left alone for d ms, long enough for tracked requests to age
\* past the retention time of the pending-request index
LongSteps == {PENDING_TTL, PENDING_TTL + 1}

LongestWait == 2 * PENDING_TTL + 1

Wait(d) ==
    /\ time + d <= LongestWait
    /\ time' = time + d
    /\ UNCHANGED <<hostCalls, bus, lastVoyagerUrl, lastVoyagerTimestamp,
                   pendingRequests, fetches, host>>
    /\ UNCHANGED workerVars
    /\ UNCHANGED callVars

\* the tracking wrapper of fetch over long waits
NextPurge ==
    \/ \E req \in Requests : FetchCall(req)
    \/ \E i \in 1 .. MaxCalls, settled \in Settlements,
          fails \in {"none", "capture"} :
           FetchSettle(i, settled, fails)
    \/ \E d \in LongSteps : Wait(d)

SpecPurge == Init /\ [][NextPurge]_vars

\* one XMLHttpRequest object used for several requests.  The requests the
\* host opens on it:
ReusedRequests ==
    { [url |-> U_MESSAGING, method |-> "POST"],
      [url |-> U_FEED, method |-> "GET"],
      [url |-> U_STATIC, method |-> "GET"] }

\* host: xhr.open(method, url).  The wrapper stores { method, url } on the
\* object; the original open resets it, dropping a response in flight
XhrOpen(req) ==
    /\ hostCalls < MaxXhrCalls
    /\ hostCalls' = hostCalls + 1
    /\ xhr' = [xhr EXCEPT !.interceptData = req, !.readyState = "opened"]
    /\ host' = Saw("xhr.open", [value |-> NULL], [value |-> NULL])
    /\ UNCHANGED <<time, bus, lastVoyagerUrl, lastVoyagerTimestamp,
                   pendingRequests, fetches>>
    /\ UNCHANGED workerVars
    /\ UNCHANGED <<given, returned, windows, paging>>

\* host: xhr.send(body).  The wrapper adds a load listener closed over the
\* stored { method, url } when that URL is capturable; no listener is ever
\* removed.  `sends' keeps what each send was opened with
XhrSend ==
    /\ hostCalls < MaxXhrCalls
    /\ xhr.readyState = "opened"
    /\ hostCalls' = hostCalls + 1
    /\ xhr' = [xhr EXCEPT
                 !.listeners =
                     IF ~IsNull(xhr.interceptData)
                        /\ shouldCapture(xhr.interceptData.url)
                     THEN Append(@, xhr.interceptData)
                     ELSE @,
                 !.sends = Append(@, xhr.interceptData),
                 !.readyState = "sent"]
    /\ host' = Saw("xhr.send", [value |-> NULL], [value |-> NULL])
    /\ UNCHANGED <<time, bus, lastVoyagerUrl, lastVoyagerTimestamp,
                   pendingRequests, fetches>>
    /\ UNCHANGED workerVars
    /\ UNCHANGED <<given, returned, windows, paging>>

\* the load event of the object: its listeners run in the order they were
\* added, each with the { method, url } it closed over and the object's
\* current status, content type and responseText
RECURSIVE LoadListeners(_, _, _, _, _, _, _, _)
LoadListeners(listeners, events, pointer, stamp, result, t, fails, of) ==
    IF listeners = <<>>
    THEN [bus |-> events, lastVoyagerUrl |-> pointer]
    ELSE LET out == XhrLoad(events, pointer, stamp, Head(listeners), result,
                            t, fails, of)
         IN  LoadListeners(Tail(listeners), out.bus, out.lastVoyagerUrl,
                           stamp, result, t, fails, of)

\* the response of the last send arrives; the events are marked with the
\* number of that send
XhrLoaded(result) ==
    /\ xhr.readyState = "sent"
    /\ xhr' = [xhr EXCEPT !.readyState = "done"]
    /\ \E out \in {LoadListeners(xhr.listeners, bus, lastVoyagerUrl,
                                 lastVoyagerTimestamp, result, time, "none",
                                 Len(xhr.sends))} :
           /\ bus' = out.bus
           /\ lastVoyagerUrl' = out.lastVoyagerUrl
    /\ UNCHANGED <<time, hostCalls, lastVoyagerTimestamp, pendingRequests,
                   fetches, host>>
    /\ UNCHANGED workerVars
    /\ UNCHANGED <<given, returned, windows, paging>>

NextReuse ==
    \/ \E req \in ReusedRequests : XhrOpen(req)
    \/ XhrSend
    \/ \E result \in XhrResults : XhrLoaded(result)

SpecReuse == Init /\ [][NextReuse]_vars

\* the interceptor script evaluated in page contexts.  Each context has its
\* own window, and a script body runs without interruption by other code
\* of its context; different contexts run side by side.
InitInstall ==
    /\ storage = EmptyStorage
    /\ request = NoMessage
    /\ response = NoMessage
    /\ io = <<>>
    /\ clock = 0
    /\ faults = 0
    /\ inflight = {}
    /\ done = <<>>
    /\ time = 0
    /\ hostCalls = 0
    /\ bus = <<>>
    /\ lastVoyagerUrl = NULL
    /\ lastVoyagerTimestamp = 0
    /\ pendingRequests = {}
    /\ fetches = <<>>
    /\ host = NoMessage
    /\ given = NoMessage
    /\ returned = NoMessage
    /\ xhr = NewXhr
    /\ windows = [c \in Contexts |-> FreshWindow]
    /\ paging = NotStarted

\* one step of the script in context c
Script(c, after) ==
    /\ windows' = [windows EXCEPT ![c] = after]
    /\ UNCHANGED workerVars
    /\ UNCHANGED pageVars
    /\ UNCHANGED <<given, returned, xhr, paging>>

\* the script starting without the guard on the loaded flag
EvaluateAgain(c) ==
    /\ windows[c].pc = "idle"
    /\ windows[c].evaluations < MaxEvaluations
    /\ Script(c, [windows[c] EXCEPT !.evaluations = @ + 1,
                                    !.loaded = TRUE,
                                    !.pc = "fetch"])

\* the script is evaluated in context c:
\* if (window.__linkedInMainWorldInterceptorLoaded) return;
\* window.__linkedInMainWorldInterceptorLoaded = true;
Evaluate(c) ==
    /\ windows[c].pc = "idle"
    /\ windows[c].evaluations < MaxEvaluations
    /\ Script(c, IF windows[c].loaded
                 THEN [windows[c] EXCEPT !.evaluations = @ + 1]
                 ELSE [windows[c] EXCEPT !.evaluations = @ + 1,
                                         !.loaded = TRUE,
                                         !.pc = "fetch"])

\* window.fetch = async function(input, init) {...}: the capturing wrapper
InstallFetch(c) ==
    /\ windows[c].pc = "fetch"
    /\ Script(c, [windows[c] EXCEPT !.fetch = Append(@, "capture"),
                                    !.pc = "xhr"])

\* XMLHttpRequest.prototype.open = ..., XMLHttpRequest.prototype.send = ...
InstallXhr(c) ==
    /\ windows[c].pc = "xhr"
    /\ Script(c, [windows[c] EXCEPT !.open = Append(@, "intercept"),
                                    !.send = Append(@, "intercept"),
                                    !.pc = "json"])

\* Response.prototype.json = async function() {...}
InstallResponseJson(c) ==
    /\ windows[c].pc = "json"
    /\ Script(c, [windows[c] EXCEPT !.json = Append(@, "capture"),
                                    !.pc = "tracking"])

\* window.fetch = async function(input, init) {...}: the tracking wrapper
\* around the capturing one
InstallTracking(c) ==
    /\ windows[c].pc = "tracking"
    /\ Script(c, [windows[c] EXCEPT !.fetch = Append(@, "tracking"),
                                    !.pc = "parse"])

\* JSON.parse = function(text, reviver) {...}
InstallJsonParse(c) ==
    /\ windows[c].pc = "parse"
    /\ Script(c, [windows[c] EXCEPT !.parse = Append(@, "capture"),
                                    !.pc = "signal"])

\* document.dispatchEvent(new CustomEvent('linkedin-main-interceptor-ready'))
SignalReady(c) ==
    /\ windows[c].pc = "signal"
    /\ Script(c, [windows[c] EXCEPT !.ready = Append(@, READY_EVENT),
                                    !.pc = "idle"])

\* the script body after its first two lines
RunScript(c) ==
    \/ InstallFetch(c)
    \/ InstallXhr(c)
    \/ InstallResponseJson(c)
    \/ InstallTracking(c)
    \/ InstallJsonParse(c)
    \/ SignalReady(c)

NextInstall ==
    \/ \E c \in Contexts : Evaluate(c)
    \/ \E c \in Contexts : InstallFetch(c)
    \/ \E c \in Contexts : InstallXhr(c)
    \/ \E c \in Contexts : InstallResponseJson(c)
    \/ \E c \in Contexts : InstallTracking(c)
    \/ \E c \in Contexts : InstallJsonParse(c)
    \/ \E c \in Contexts : SignalReady(c)

\* a script body that has started runs to its end: it is synchronous
SpecInstall ==
    /\ InitInstall
    /\ [][NextInstall]_vars
    /\ \A c \in Contexts : WF_vars(RunScript(c))

\* the classifier applied on its own: URLs are put together from at most
\* MaxParts of these parts (the query-id marker, identifiers of the table,
\* words of the URL fallback in either case, and neutral pieces)
MaxParts == 3

UrlParts ==
    { <<"queryId=">>,
      <<"voyager", "Feed", "Dash", "Main", "Feed">>,
      <<"voyager", "Feed", "Dash", "Profile", "Update", "s">>,
      <<"voyager", "Social", "Dash", "Replies">>,
      <<"voyager", "Social", "Dash", "Reactors">>,
      <<"messenger", "Messages">>,
      <<"voyager", "Identity", "Dash", "Profile", "Cards">>,
      <<"voyager", "Relationship", "s", "Dash", "Followers">>,
      <<"voyager", "Identity", "Dash", "Wvmp">>,
      <<"&">>,
      <<"feed">>,
      <<"Messaging">>,
      <<"profile">>,
      <<"connection", "s">>,
      <<"wvmp">>,
      <<"updates">> }

RECURSIVE UrlsOf(_)
UrlsOf(n) ==
    IF n = 0
    THEN {<<>>}
    ELSE LET shorter == UrlsOf(n - 1)
         IN  shorter \cup {u \o part : u \in shorter, part \in UrlParts}

InitClassify ==
    /\ storage = EmptyStorage
    /\ request = NoMessage
    /\ response = NoMessage
    /\ io = <<>>
    /\ clock = 0
    /\ faults = 0
    /\ inflight = {}
    /\ done = <<>>
    /\ time = 0
    /\ hostCalls = 0
    /\ bus = <<>>
    /\ lastVoyagerUrl = NULL
    /\ lastVoyagerTimestamp = 0
    /\ pendingRequests = {}
    /\ fetches = <<>>
    /\ host = NoMessage
    /\ given \in {[url |-> u] : u \in UrlsOf(MaxParts)}
    /\ returned = NoMessage
    /\ xhr = NewXhr
    /\ windows = [c \in Contexts |-> InstalledWindow]
    /\ paging = NotStarted

\* category = categorize(url)
Classify ==
    /\ returned = NoMessage
    /\ returned' = [category |-> categorize(given.url)]
    /\ UNCHANGED <<given, xhr, windows, paging>>
    /\ UNCHANGED workerVars
    /\ UNCHANGED pageVars

NextClassify == Classify

SpecClassify == InitClassify /\ [][NextClassify]_vars

-----------------------------------------------------------------------------
(* fetchAllConnections.  A connection is modelled by its identifier        *)
(* (publicIdentifier || entityUrn || connectionUrn), 0 standing for a      *)
(* connection that has none.  What fetchConnections returns for a page is   *)
(* the remote API's choice.                                                *)

PAGE_SIZE == 40
DEFAULT_MAX_CONNECTIONS == 500

\* page requests are counted up to MaxPages; beyond it only the parity of
\* the count, and of the start offset that goes into the request, is kept
MaxPages == 14

CountPage(requests) ==
    IF requests < MaxPages THEN requests + 1 ELSE MaxPages - 1

\* message.maxConnections || 500
MaxConnectionsOf(requested) ==
    IF requested = 0 THEN DEFAULT_MAX_CONNECTIONS ELSE requested

RangeOf(list) == {list[i] : i \in DOMAIN list}

\* an identifier that the list does not hold: the lists built from the
\* pages below are ascending
FreshId(list) == IF list = <<>> THEN 1 ELSE list[Len(list)] + 1

\* n consecutive identifiers starting at first
Run(first, n) == [i \in 1 .. n |-> first + i - 1]

\* the results of fetchConnections(start, 40) when allConnections is `list'
PageResults(list) ==
    { [success |-> FALSE, connections |-> <<>>, rawConnectionCount |-> 0],
      \* a full page of connections not seen before
      [success |-> TRUE, connections |-> Run(FreshId(list), PAGE_SIZE),
       rawConnectionCount |-> PAGE_SIZE],
      \* the first full page once more
      [success |-> TRUE, connections |-> Run(1, PAGE_SIZE),
       rawConnectionCount |-> PAGE_SIZE],
      \* a full page none of whose connections has profile data
      [success |-> TRUE, connections |-> <<>>,
       rawConnectionCount |-> PAGE_SIZE],
      \* the last page
      [success |-> TRUE, connections |-> Run(FreshId(list), 2),
       rawConnectionCount |-> 2],
      \* the last page, naming one connection twice
      [success |-> TRUE,
       connections |-> <<FreshId(list), FreshId(list)>>,
       rawConnectionCount |-> 2],
      \* an empty last page
      [success |-> TRUE, connections |-> <<>>, rawConnectionCount |-> 0] }

\* batchConnections.filter(c => id && !existingIds.has(id)), existingIds
\* being the identifiers of allConnections before the batch
NewConnections(list, batch) ==
    LET existingIds == RangeOf(list)
    IN  SelectSeq(batch, LAMBDA c : c # 0 /\ c \notin existingIds)

\* result.rawConnectionCount || batchConnections.length
RawCount(res) ==
    IF res.rawConnectionCount # 0 THEN res.rawConnectionCount
    ELSE Len(res.connections)

Paging(after) ==
    /\ paging' = after
    /\ UNCHANGED workerVars
    /\ UNCHANGED pageVars
    /\ UNCHANGED <<given, returned, xhr, windows>>

\* case 'FETCH_ALL_CONNECTIONS': fetchAllConnections(maxConnections || 500)
CallFetchAll(requested) ==
    /\ paging.pc = "idle"
    /\ Paging([paging EXCEPT !.pc = "loop",
                             !.maxConnections = MaxConnectionsOf(requested)])

\* one pass of the while loop: the condition holds, a page is requested and
\* what it returned is processed
FetchPage(res) ==
    /\ paging.pc = "loop"
    /\ paging.hasMore
    /\ Len(paging.allConnections) < paging.maxConnections
    /\ Paging(
         IF res.success
         THEN [paging EXCEPT
                 !.allConnections =
                     @ \o NewConnections(paging.allConnections,
                                         res.connections),
                 !.hasMore = ~(RawCount(res) < PAGE_SIZE),
                 !.start = PAGE_SIZE * CountPage(paging.requests),
                 !.requests = CountPage(@)]
         ELSE \* break
              [paging EXCEPT !.requests = CountPage(@), !.pc = "save"])

\* the while condition is false
LeaveLoop ==
    /\ paging.pc = "loop"
    /\ ~(paging.hasMore
         /\ Len(paging.allConnections) < paging.maxConnections)
    /\ Paging([paging EXCEPT !.pc = "save"])

\* await saveToStorage(CONNECTIONS_DATA, connectionsData); return {...}
SaveAndReturn(setOk) ==
    /\ paging.pc = "save"
    /\ Paging([paging EXCEPT
                 !.persisted = IF setOk THEN paging.allConnections ELSE @,
                 !.saved = setOk,
                 !.result = [success |-> TRUE,
                             connections |-> paging.allConnections,
                             totalConnections |-> Len(paging.allConnections)],
                 !.pc = "returned"])

RequestedLimits == {0, 50}

\* the steps of the function once it has been called
RunFetchAll ==
    \/ \E res \in PageResults(paging.allConnections) : FetchPage(res)
    \/ LeaveLoop
    \/ \E setOk \in BOOLEAN : SaveAndReturn(setOk)

NextPaging ==
    \/ \E requested \in RequestedLimits : CallFetchAll(requested)
    \/ \E res \in PageResults(paging.allConnections) : FetchPage(res)
    \/ LeaveLoop
    \/ \E setOk \in BOOLEAN : SaveAndReturn(setOk)

\* every awaited call of the function returns or fails, so a started run
\* takes its next step
SpecPaging == Init /\ [][NextPaging]_vars /\ WF_vars(RunFetchAll)

-----------------------------------------------------------------------------
(* Reading the persisted state *)

Collection(key, field) == Prop(storage[key], field, <<>>)
FeedPosts == Collection(K_FEED_POSTS, "posts")
Comments == Collection(K_COMMENTS, "comments")
MyPosts == Collection(K_MY_POSTS, "posts")
AnalyticsPosts == Collection(K_POST_ANALYTICS, "posts")
Topics == Collection(K_TRENDING, "topics")
Followers == Collection(K_FOLLOWERS, "followers")
History == Collection(K_FOLLOWERS, "history")
ApiLog == Collection(K_CAPTURED_APIS, "array")

\* the last message was of this type and its write of key took effect
WrittenBy(type, key) ==
    /\ request.type = type
    /\ \E i \in DOMAIN io : io[i] = IoSet(key, TRUE)

NoFault(calls) == \A i \in DOMAIN calls : calls[i].ok

\* the ranking keys as the store's contract words them
EngagementScoreOf(p) ==
    IF "engagementScore" \in DOMAIN p THEN p.engagementScore ELSE 0
LikesOf(c) == IF "likes" \in DOMAIN c THEN c.likes ELSE 0
CompositeOf(p) ==
    IF "engagement" \in DOMAIN p
    THEN LikesOf(p.engagement)
         + 3 * (IF "comments" \in DOMAIN p.engagement
                THEN p.engagement.comments ELSE 0)
    ELSE 0
ImpressionsOf(p) == IF "impressions" \in DOMAIN p THEN p.impressions ELSE 0

Descending(keys) == \A i \in 1..(Len(keys) - 1) : keys[i] >= keys[i + 1]

-----------------------------------------------------------------------------
(* C1: capacity invariant.  In every reachable persisted state each        *)
(* collection holds at most its capacity: feed posts 500, comments 1000,   *)
(* my-posts 200, post-analytics 100, trending topics 200, generic log      *)
(* 1000, followers list 500, follower-count history 100.                   *)
C1_Capacity ==
    /\ Len(FeedPosts) <= 500
    /\ Len(Comments) <= 1000
    /\ Len(MyPosts) <= 200
    /\ Len(AnalyticsPosts) <= 100
    /\ Len(Topics) <= 200
    /\ Len(ApiLog) <= 1000
    /\ Len(Followers) <= 500
    /\ Len(History) <= 100

\* a batch of more than 500 distinct feed posts was merged and cut to 500
C1_Witness ==
    /\ WrittenBy("SAVE_FEED_POSTS", K_FEED_POSTS)
    /\ response.newCount > 500
    /\ Len(FeedPosts) = 500

-----------------------------------------------------------------------------
\* the identity keys the records carry (a falsy key is no key)
Keys(records, idf) ==
    {records[i][idf] : i \in {j \in DOMAIN records : Truthy(records[j], idf)}}

\* the record stored for identity key k
RecordOf(records, idf, k) ==
    records[CHOOSE i \in DOMAIN records : Truthy(records[i], idf)
                                          /\ records[i][idf] = k]

(* C2: feed-post merges accumulate across requests.  When a feed-post      *)
(* batch has been persisted and the next request is a feed-post batch with *)
(* disjoint identity keys (at most 500 records in total), no storage call  *)
(* failing, both responses report success and the persisted collection     *)
(* contains the records of both batches.                                   *)
C2_FeedAccumulates ==
    [][(/\ WrittenBy("SAVE_FEED_POSTS", K_FEED_POSTS)
        /\ NoFault(io)
        /\ request'.type = "SAVE_FEED_POSTS"
        /\ IsArray(request'.posts)
        /\ NoFault(io')
        /\ Keys(request.posts.array, "urn")
               \cap Keys(request'.posts.array, "urn") = {}
        /\ Len(request.posts.array) + Len(request'.posts.array) <= 500)
       => /\ response.success
          /\ response'.success
          /\ Keys(request.posts.array, "urn")
                 \cup Keys(request'.posts.array, "urn")
             \subseteq Keys(FeedPosts', "urn")]_vars

-----------------------------------------------------------------------------
(* The collection types as the store's contract lists them *)

\* the message types that use the general merge, all ranked
Merging ==
    {"SAVE_FEED_POSTS", "SAVE_COMMENTS", "SAVE_MY_POSTS",
     "POST_ANALYTICS_CAPTURED"}
\* the message types whose collection is keyed by an identity
Keyed == Merging \cup {"SAVE_TRENDING", "SAVE_FOLLOWERS"}

KeyOf(type) ==
    CASE type = "SAVE_FEED_POSTS" -> K_FEED_POSTS
      [] type = "SAVE_COMMENTS" -> K_COMMENTS
      [] type = "SAVE_MY_POSTS" -> K_MY_POSTS
      [] type = "POST_ANALYTICS_CAPTURED" -> K_POST_ANALYTICS
      [] type = "SAVE_TRENDING" -> K_TRENDING
      [] type = "SAVE_FOLLOWERS" -> K_FOLLOWERS

FieldOf(type) ==
    CASE type = "SAVE_COMMENTS" -> "comments"
      [] type = "SAVE_TRENDING" -> "topics"
      [] type = "SAVE_FOLLOWERS" -> "followers"
      [] OTHER -> "posts"

IdOf(type) ==
    CASE type = "POST_ANALYTICS_CAPTURED" -> "activityUrn"
      [] type = "SAVE_TRENDING" -> "topic"
      [] type = "SAVE_FOLLOWERS" -> "entityUrn"
      [] OTHER -> "urn"

CapOf(type) ==
    CASE type = "SAVE_FEED_POSTS" -> 500
      [] type = "SAVE_COMMENTS" -> 1000
      [] type = "SAVE_MY_POSTS" -> 200
      [] type = "POST_ANALYTICS_CAPTURED" -> 100
      [] type = "SAVE_TRENDING" -> 200
      [] type = "SAVE_FOLLOWERS" -> 500

RankOf(type, r) ==
    CASE type = "SAVE_FEED_POSTS" -> EngagementScoreOf(r)
      [] type = "SAVE_COMMENTS" -> LikesOf(r)
      [] type = "SAVE_MY_POSTS" -> CompositeOf(r)
      [] type = "POST_ANALYTICS_CAPTURED" -> ImpressionsOf(r)

\* the collection of the type in store st
StoredIn(st, type) == Prop(st[KeyOf(type)], FieldOf(type), <<>>)

\* the records a message of a keyed type carries
Incoming(msg) ==
    CASE msg.type \in {"SAVE_FEED_POSTS", "SAVE_MY_POSTS"} ->
           Prop(msg.posts, "array", <<>>)
      [] msg.type = "SAVE_COMMENTS" -> Prop(msg.comments, "array", <<>>)
      [] msg.type = "SAVE_TRENDING" -> Prop(msg.topics, "array", <<>>)
      [] msg.type = "SAVE_FOLLOWERS" -> Prop(msg.data, "followers", <<>>)
      [] msg.type = "POST_ANALYTICS_CAPTURED" -> <<msg.data>>

\* the positions of the records with identity key k
Holding(records, idf, k) ==
    {i \in DOMAIN records : Truthy(records[i], idf) /\ records[i][idf] = k}

\* the bookkeeping time stamps a merge adds to a record or a stored object
Stamps == {"lastUpdated", "firstCaptured", "lastSeen"}
Payload(r) == [f \in DOMAIN r \ Stamps |-> r[f]]
Payloads(records) == [i \in DOMAIN records |-> Payload(records[i])]

\* now is the union of was and inc, inc winning on the fields both have
UnionOf(was, inc, now) ==
    /\ DOMAIN was \cup DOMAIN inc \subseteq DOMAIN now
    /\ DOMAIN now \subseteq DOMAIN was \cup DOMAIN inc \cup Stamps
    /\ \A f \in DOMAIN inc : now[f] = inc[f]
    /\ \A f \in DOMAIN was \ (DOMAIN inc \cup Stamps) : now[f] = was[f]

(* C3: dedup correctness.  For feed posts, comments, my-posts and          *)
(* post-analytics: when a record with identity key k is persisted and a    *)
(* request merges one incoming record with the same key and a different    *)
(* field set, no storage call failing, the persisted collection afterwards *)
(* holds exactly one record for k, whose fields are the union of both,     *)
(* with the incoming value on every field both have and the existing value *)
(* on the fields only the existing record has.                             *)
C3_Dedup ==
    [][\A type \in Merging :
          (request'.type = type /\ NoFault(io')) =>
              LET idf == IdOf(type)
                  old == StoredIn(storage, type)
                  new == StoredIn(storage', type)
                  inc == Incoming(request')
              IN  \A k \in Keys(old, idf) \cap Keys(inc, idf) :
                      LET was == RecordOf(old, idf, k)
                          got == RecordOf(inc, idf, k)
                      IN  (/\ Cardinality(Holding(inc, idf, k)) = 1
                           /\ DOMAIN got # DOMAIN was \ Stamps)
                          => /\ Cardinality(Holding(new, idf, k)) = 1
                             /\ UnionOf(was, got, RecordOf(new, idf, k))]_vars

(* C4: comment re-capture.  Two sequential comment requests on the empty   *)
(* store, first [{urn c1, likes 3}] then [{urn c1, likes 9, text hi}], no  *)
(* storage call failing, leave a single persisted comment for c1 with      *)
(* likes 9 and text hi, the first response reporting newCount 1 and the    *)
(* second newCount 0; and in every fault-free merge the reported newCount  *)
(* is the number of incoming identity keys absent from the persisted       *)
(* collection before the request.                                          *)
C4_CommentRecapture ==
    [][/\ (/\ clock = 1
           /\ request = [type |-> "SAVE_COMMENTS",
                         comments |-> Arr(<<[urn |-> "c1", likes |-> 3]>>)]
           /\ NoFault(io)
           /\ request' = [type |-> "SAVE_COMMENTS",
                          comments |-> Arr(<<[urn |-> "c1", likes |-> 9,
                                              text |-> "hi"]>>)]
           /\ NoFault(io'))
          => /\ response.newCount = 1
             /\ response'.newCount = 0
             /\ Payloads(Comments')
                    = <<[urn |-> "c1", likes |-> 9, text |-> "hi"]>>
       /\ \A type \in Merging :
              (/\ request'.type = type
               /\ NoFault(io')
               /\ "newCount" \in DOMAIN response')
              => response'.newCount
                     = Cardinality(Keys(Incoming(request'), IdOf(type))
                                   \ Keys(StoredIn(storage, type),
                                          IdOf(type)))]_vars

\* a stored object without its time stamps: the collection, the top lists
\* and bestPost by payload, the counts and statistics as they are (the
\* follower-count history is a log, not part of the keyed collection)
Unstamped(obj) ==
    [f \in DOMAIN obj \ (Stamps \cup {"history", "followerCount"}) |->
        IF f \in {"posts", "comments", "topics", "followers", "topHits",
                  "topComments"}
        THEN Payloads(obj[f])
        ELSE IF f = "bestPost" THEN Payload(obj[f])
        ELSE obj[f]]

(* C5: idempotent merge.  For every identity-keyed collection type, when a *)
(* batch has been persisted and the same batch is submitted again, no      *)
(* storage call failing, the second response reports success (with         *)
(* newCount 0 where the type reports newCount) and the persisted           *)
(* collection, summary and totalCount are the same as after the first      *)
(* submission: same identity keys, order and payload fields.               *)
C5_Idempotent ==
    [][\A type \in Keyed :
          (/\ request.type = type
           /\ WrittenBy(type, KeyOf(type))
           /\ NoFault(io)
           /\ request' = request
           /\ NoFault(io'))
          => /\ response'.success
             /\ "newCount" \in DOMAIN response => response'.newCount = 0
             /\ Unstamped(storage'[KeyOf(type)])
                    = Unstamped(storage[KeyOf(type)])
             /\ \A k \in Keys(StoredIn(storage', type), IdOf(type)) :
                    Cardinality(Holding(StoredIn(storage', type),
                                        IdOf(type), k)) = 1]_vars

\* the ranking keys of the records, in their order
RanksOf(type, records) ==
    [i \in DOMAIN records |-> RankOf(type, records[i])]

(* C6: rank invariant.  In every persisted state written by a merge the    *)
(* ranked collection is sorted in descending order of its ranking key, a   *)
(* missing key counting as 0: feed posts by engagementScore, comments by   *)
(* likes, my-posts by likes + 3 * comments, post-analytics by impressions. *)
C6_Ranked ==
    \A type \in Merging :
        WrittenBy(type, KeyOf(type))
        => Descending(RanksOf(type, StoredIn(storage, type)))

\* an incoming my-post update outranked the stored first post and moved up
C6_Witness ==
    /\ WrittenBy("SAVE_MY_POSTS", K_MY_POSTS)
    /\ Len(MyPosts) = 2
    /\ Keys(request.posts.array, "urn") = {"p2"}
    /\ MyPosts[1].urn = "p2"
    /\ CompositeOf(MyPosts[1]) > CompositeOf(MyPosts[2])
    /\ CompositeOf(MyPosts[2]) > 0

\* the first n records, or all of them when there are fewer
FirstOf(records, n) ==
    SubSeq(records, 1, IF Len(records) < n THEN Len(records) ELSE n)

(* C7: top-N consistency.  In every persisted state written by a merge,    *)
(* topHits is exactly the first (at most 20) records of the persisted feed *)
(* collection with engagementScore > 50, in rank order; topComments is     *)
(* exactly the first (at most 50) records of the persisted comments with   *)
(* likes >= 5; bestPost is the first record of the persisted my-posts, or  *)
(* null when there is none.                                                *)
C7_TopN ==
    /\ WrittenBy("SAVE_FEED_POSTS", K_FEED_POSTS)
       => LET Hit(p) == EngagementScoreOf(p) > 50
          IN  storage[K_FEED_POSTS].topHits
                  = FirstOf(SelectSeq(FeedPosts, Hit), 20)
    /\ WrittenBy("SAVE_COMMENTS", K_COMMENTS)
       => LET Liked(c) == LikesOf(c) >= 5
          IN  storage[K_COMMENTS].topComments
                  = FirstOf(SelectSeq(Comments, Liked), 50)
    /\ WrittenBy("SAVE_MY_POSTS", K_MY_POSTS)
       => storage[K_MY_POSTS].bestPost
              = (IF Len(MyPosts) > 0 THEN MyPosts[1] ELSE NULL)

\* a feed merge left more than 20 posts above the threshold, 20 are listed
C7_Witness ==
    /\ WrittenBy("SAVE_FEED_POSTS", K_FEED_POSTS)
    /\ Len(storage[K_FEED_POSTS].topHits) = 20
    /\ Cardinality({i \in DOMAIN FeedPosts :
                       EngagementScoreOf(FeedPosts[i]) > 50}) > 20

\* the record the merge makes of a stored record and the incoming record
\* with the same identity key (a comment already stored is kept as it is,
\* see C3)
MergedRecord(type, was, got) ==
    IF type = "SAVE_COMMENTS" THEN was ELSE Spread(was, got)

\* the ranking keys of the records of the merged set that are not left in
\* the persisted collection: stored ones no incoming record replaces,
\* incoming ones that were not stored, and merged ones; kept, came and
\* left are the identity keys of old, inc and of the persisted collection
EvictedRanks(type, old, inc, kept, came, left) ==
    LET idf == IdOf(type)
        Gone(r) == Truthy(r, idf) /\ r[idf] \notin left
    IN  {RankOf(type, old[i]) :
             i \in {j \in DOMAIN old :
                        Gone(old[j]) /\ old[j][idf] \notin came}}
        \cup {RankOf(type, inc[i]) :
                  i \in {j \in DOMAIN inc :
                             Gone(inc[j]) /\ inc[j][idf] \notin kept}}
        \cup {RankOf(type, MergedRecord(type, RecordOf(old, idf, k),
                                        RecordOf(inc, idf, k))) :
                  k \in (kept \cap came) \ left}

(* C8: truncation keeps the best.  Whenever a merge of a ranked type       *)
(* persists its result, no storage call failing, and the merged set (the   *)
(* stored keys and the incoming keys, each incoming key carried by one     *)
(* record) exceeds the capacity, the persisted collection has exactly      *)
(* capacity records and every retained record has a ranking key greater    *)
(* than or equal to that of every evicted record.                          *)
C8_KeepsBest ==
    [][\A type \in Merging :
          (/\ request'.type = type
           /\ NoFault(io')
           /\ \E i \in DOMAIN io' : io'[i] = IoSet(KeyOf(type), TRUE))
          => LET idf == IdOf(type)
                 old == StoredIn(storage, type)
                 inc == Incoming(request')
                 new == StoredIn(storage', type)
             IN  \A kept \in {Keys(old, idf)}, came \in {Keys(inc, idf)},
                    left \in {Keys(new, idf)} :
                     (/\ Cardinality(kept \cup came) > CapOf(type)
                      /\ Cardinality(came)
                             = Cardinality({i \in DOMAIN inc :
                                               Truthy(inc[i], idf)}))
                     => /\ Len(new) = CapOf(type)
                        /\ Cardinality(left) = CapOf(type)
                        /\ left \subseteq kept \cup came
                        /\ \A e \in EvictedRanks(type, old, inc,
                                                 kept, came, left) :
                               \A r \in DOMAIN new :
                                   RankOf(type, new[r]) >= e]_vars

\* more than 500 distinct feed posts were merged: the records with the
\* lowest score are gone, the lowest retained score is above theirs
C8_Witness ==
    /\ WrittenBy("SAVE_FEED_POSTS", K_FEED_POSTS)
    /\ NoFault(io)
    /\ Cardinality(Keys(Incoming(request), "urn")) > 500
    /\ Len(FeedPosts) = 500
    /\ EngagementScoreOf(FeedPosts[500]) > 0
    /\ \E i \in DOMAIN Incoming(request) :
           EngagementScoreOf(Incoming(request)[i]) = 0

(* C9: summary consistency.  In every persisted state written by a merge   *)
(* the stored totalCount is the number of records of the collection stored *)
(* in the same write (feed posts, comments, my-posts, post-analytics, and  *)
(* trending topics after the truncation to 200), and the stored statistics *)
(* are those of that collection.                                           *)
C9_SummaryConsistent ==
    /\ \A type \in Merging \cup {"SAVE_TRENDING"} :
           WrittenBy(type, KeyOf(type))
           => storage[KeyOf(type)].totalCount = Len(StoredIn(storage, type))
    /\ WrittenBy("SAVE_FEED_POSTS", K_FEED_POSTS)
       => storage[K_FEED_POSTS].stats.avgEngagement
              = (IF Len(FeedPosts) = 0 THEN 0
                 ELSE RoundDiv(Sum(RanksOf("SAVE_FEED_POSTS", FeedPosts)),
                               Len(FeedPosts)))
    /\ WrittenBy("SAVE_COMMENTS", K_COMMENTS)
       => /\ storage[K_COMMENTS].stats.topCommentsCount
                 = Len(storage[K_COMMENTS].topComments)
          /\ storage[K_COMMENTS].stats.avgLikes
                 = (IF Len(Comments) = 0 THEN 0
                    ELSE RoundDiv(Sum(RanksOf("SAVE_COMMENTS", Comments)),
                                  Len(Comments)))
    /\ WrittenBy("SAVE_MY_POSTS", K_MY_POSTS)
       => storage[K_MY_POSTS].stats.totalLikes
              = Sum([i \in DOMAIN MyPosts |->
                        IF "engagement" \in DOMAIN MyPosts[i]
                        THEN LikesOf(MyPosts[i].engagement) ELSE 0])
    /\ WrittenBy("POST_ANALYTICS_CAPTURED", K_POST_ANALYTICS)
       => storage[K_POST_ANALYTICS].stats.totalImpressions
              = Sum(RanksOf("POST_ANALYTICS_CAPTURED", AnalyticsPosts))

(* C10: write failure is reported.  When the backend's set fails while a   *)
(* merge or append request is writing its result, the response to that     *)
(* request is {success: false, error: message}, never success: true.       *)
C10_WriteFailureReported ==
    (\E i \in DOMAIN io : io[i].op = "set" /\ ~io[i].ok)
    => /\ response.success = FALSE
       /\ "error" \in DOMAIN response

-----------------------------------------------------------------------------
\* the message types that load a collection and write it back
Loading == Keyed \cup {"APPEND_DATA", "API_CAPTURED"}

(* C11: read failure never commits.  When the backend's get fails while a  *)
(* merge or append request is loading the existing collection, the request *)
(* answers a structured failure and issues no write: the store is as it    *)
(* was before the request.                                                 *)
C11_ReadFailureNeverCommits ==
    [][(/\ request'.type \in Loading
        /\ \E i \in DOMAIN io' : io'[i].op = "get" /\ ~io'[i].ok)
       => /\ response'.success = FALSE
          /\ "error" \in DOMAIN response'
          /\ \A i \in DOMAIN io' : io'[i].op # "set"
          /\ storage' = storage]_vars

-----------------------------------------------------------------------------
\* the collection of the message's type in a stored object
CollectionIn(obj, type) == Prop(obj, FieldOf(type), <<>>)

(* C12: lost-update race.  Two merge requests for the same collection type *)
(* are independent read-modify-write units suspended at backend I/O: what  *)
(* a request writes is made of what it read and of its own batch only, so  *)
(* in the interleaving where both read before either writes both answer    *)
(* success and the persisted collection lacks the records of one of them   *)
(* (the state of C12_Witness).                                             *)
C12_WritesWhatItRead ==
    \A n \in DOMAIN done :
        (n = Len(done) /\ \E i \in DOMAIN done[n].io :
                              done[n].io[i].op = "set" /\ done[n].io[i].ok)
        => LET type == done[n].msg.type
               idf == IdOf(type)
           IN  Keys(StoredIn(storage, type), idf)
                   = Keys(CollectionIn(done[n].read, type), idf)
                     \cup Keys(Incoming(done[n].msg), idf)

\* both requests read before either wrote, no storage call failed, both
\* answered success, and a record of the first writer is not persisted
C12_Witness ==
    /\ Len(done) = 2
    /\ done[1].msg.type = done[2].msg.type
    /\ done[1].read = done[2].read
    /\ NoFault(done[1].io) /\ NoFault(done[2].io)
    /\ done[1].response.success /\ done[2].response.success
    /\ done[1].response.newCount > 0
    /\ Keys(Incoming(done[1].msg), IdOf(done[1].msg.type))
           \ Keys(StoredIn(storage, done[1].msg.type),
                  IdOf(done[1].msg.type)) # {}

-----------------------------------------------------------------------------
\* the batch of a merge message passes the handler's opening test
Admitted(msg) ==
    CASE msg.type \in {"SAVE_FEED_POSTS", "SAVE_MY_POSTS"} ->
           IsArray(msg.posts) /\ Len(msg.posts.array) > 0
      [] msg.type = "SAVE_COMMENTS" ->
           IsArray(msg.comments) /\ Len(msg.comments.array) > 0
      [] msg.type = "SAVE_TRENDING" ->
           IsArray(msg.topics) /\ Len(msg.topics.array) > 0
      [] msg.type = "SAVE_FOLLOWERS" -> ~IsNull(msg.data)
      [] msg.type = "POST_ANALYTICS_CAPTURED" ->
           ~IsNull(msg.data) /\ Truthy(msg.data, "activityUrn")

\* the summary fields persisted next to the collection
SummaryOf(type) ==
    CASE type = "SAVE_FEED_POSTS" -> {"totalCount", "topHits", "stats"}
      [] type = "SAVE_COMMENTS" -> {"totalCount", "topComments", "stats"}
      [] type = "SAVE_MY_POSTS" -> {"totalCount", "bestPost", "stats"}
      [] type = "POST_ANALYTICS_CAPTURED" -> {"totalCount", "stats"}
      [] type = "SAVE_TRENDING" -> {"totalCount"}
      [] type = "SAVE_FOLLOWERS" -> {"followerCount", "history"}

\* the backend calls of a step are one get of key, then at most one set of it
ReadThenWrite(calls, key) ==
    /\ Len(calls) \in {1, 2}
    /\ calls[1].op = "get" /\ calls[1].key = key
    /\ Len(calls) = 2 => calls[2].op = "set" /\ calls[2].key = key

(* C13: single read-modify-write.  A merge request whose batch passes the  *)
(* handler's opening test performs exactly one backend read of its own     *)
(* collection key followed by at most one backend write of that key; the   *)
(* written object carries collection, summary and lastUpdated together;    *)
(* no other key changes.  A request whose batch is empty or missing is     *)
(* answered with no backend call at all.                                   *)
C13_SingleReadModifyWrite ==
    [][request'.type \in Keyed
       => LET key == KeyOf(request'.type)
          IN  /\ Admitted(request') => ReadThenWrite(io', key)
              /\ ~Admitted(request') => io' = <<>>
              /\ \A k \in STORAGE_KEYS \ {key} : storage'[k] = storage[k]
              /\ storage'[key] # storage[key]
                 => /\ io'[Len(io')] = IoSet(key, TRUE)
                    /\ {FieldOf(request'.type), "lastUpdated"}
                           \cup SummaryOf(request'.type)
                       \subseteq DOMAIN storage'[key]]_vars

\* a merge request has read its key, written it once, and the stored
\* object holds collection, summary and time stamp
C13_Witness ==
    /\ request.type \in Keyed
    /\ io = <<IoGet(KeyOf(request.type), TRUE),
              IoSet(KeyOf(request.type), TRUE)>>
    /\ {FieldOf(request.type), "lastUpdated"} \cup SummaryOf(request.type)
           \subseteq DOMAIN storage[KeyOf(request.type)]
    /\ Len(StoredIn(storage, request.type)) > 0

\* the statement without the opening test: every merge request reads once
C13_EveryRequestReadsOnce ==
    [][request'.type \in Keyed
       => ReadThenWrite(io', KeyOf(request'.type))]_vars

-----------------------------------------------------------------------------
(* C14: every response carries a boolean success field.  Whatever the      *)
(* message type (cookie, auth-check, storage, capture, save, export,       *)
(* stats, fetch), the response sent back has a field success that is       *)
(* TRUE or FALSE.                                                          *)
C14_SuccessField ==
    request.type # "none"
    => "success" \in DOMAIN response /\ response.success \in BOOLEAN

(* C15: an unknown message type is rejected without side effects.  A       *)
(* message whose type has no case in the switch is answered                *)
(* { success: false, error: 'Unknown message type' }; no storage key is    *)
(* read or written and the store is unchanged.                             *)
C15_UnknownRejected ==
    [][request'.type \in UnknownTypes
       => /\ response' = [success |-> FALSE, error |-> "Unknown message type"]
          /\ io' = <<>>
          /\ storage' = storage]_vars

\* an unknown type has been answered while the store holds a collection
C15_Witness ==
    /\ request.type \in UnknownTypes
    /\ response = [success |-> FALSE, error |-> "Unknown message type"]
    /\ io = <<>>
    /\ clock = 2
    /\ storage # EmptyStorage

-----------------------------------------------------------------------------
C17_OneEventPerResponse ==
    \A m, n \in DOMAIN bus :
        (bus[m].of # 0 /\ bus[m].of = bus[n].of) => m = n


TrackedAt == {fetches[i].at : i \in {j \in DOMAIN fetches :
                                        shouldCapture(fetches[j].req.url)}}

\* the json-parse events a step adds to the bus
NewJsonParse ==
    {n \in DOMAIN bus' \ DOMAIN bus : bus'[n].type = "json-parse"}

(* C19: recency window.  A json-parse event is dispatched only when the    *)
(* decode happens strictly less than 5000 ms after the most recent tracked *)
(* request of a capturable URL; a decode 5000 ms or more after the last    *)
(* tracked request dispatches nothing, whatever the decoded value is.      *)
C19_RecencyWindow ==
    [][NewJsonParse # {}
       => /\ TrackedAt # {}
          /\ \E last \in TrackedAt :
                 /\ \A at \in TrackedAt : at <= last
                 /\ time - last < 5000]_vars

\* a decode 4999 ms after the only tracked request has put a json-parse
\* event on the bus
C19_Witness ==
    /\ Len(fetches) = 1
    /\ fetches[1].at = 0
    /\ fetches[1].req.url = U_MY_POSTS
    /\ Len(bus) = 1
    /\ bus[1].type = "json-parse"
    /\ bus[1].timestamp = 4999
    /\ host.call = "JSON.parse"


\* the host's last call was JSON.parse, it returned an object with an
\* included, data or elements field, and nothing threw in the capture code
DecodedApiResponse ==
    /\ hostCalls' = hostCalls + 1
    /\ host'.call = "JSON.parse"
    /\ host'.fault = "none"
    /\ ~Threw(host'.original)
    /\ IsObject(host'.original.value)
    /\ \E f \in {"included", "data", "elements"} :
           f \in DOMAIN host'.original.value
           /\ ~IsNull(host'.original.value[f])

(* C20: the decode fallback emits on every match.  Whenever a generic      *)
(* decode happens within the recency window of a tracked request of a      *)
(* capturable URL (the pointer to that request not yet cleared by an       *)
(* earlier match) and the decoded value is an object containing an         *)
(* included, data or elements field, a json-parse event for that           *)
(* request's URL is dispatched, whatever category the URL classifies to.   *)
C20_EmitsOnEveryMatch ==
    [][(/\ DecodedApiResponse
        /\ ~IsNull(lastVoyagerUrl)
        /\ time - lastVoyagerTimestamp < 5000)
       => \E n \in NewJsonParse : bus'[n].url = lastVoyagerUrl.url]_vars


\* the json-parse events on the bus
JsonParseEvents == {n \in DOMAIN bus : bus[n].type = "json-parse"}

\* the calls of fetch made so far with a capturable URL
TrackedCalls == {i \in DOMAIN fetches : shouldCapture(fetches[i].req.url)}

(* C21: no re-emission by the decode fallback.  A step that dispatches a   *)
(* json-parse event finds the recency pointer set and leaves it cleared,   *)
(* the pointer is set again only by a step that tracks another fetch of a  *)
(* capturable URL, and at every moment the number of json-parse events is  *)
(* at most the number of tracked fetch calls of capturable URLs.           *)
C21_NoReEmission ==
    /\ [](Cardinality(JsonParseEvents) <= Cardinality(TrackedCalls))
    /\ [][/\ NewJsonParse # {}
             => /\ Cardinality(NewJsonParse) = 1
                /\ ~IsNull(lastVoyagerUrl)
                /\ IsNull(lastVoyagerUrl')
          /\ (IsNull(lastVoyagerUrl) /\ ~IsNull(lastVoyagerUrl'))
             => Cardinality(TrackedCalls') = Cardinality(TrackedCalls) + 1]_vars

\* one tracked feed request, then two decodes of API-shaped values inside
\* the window: the first dispatched the only json-parse event, the second
\* found the pointer cleared
C21_Witness ==
    /\ hostCalls = 3
    /\ Len(fetches) = 1
    /\ fetches[1].req.url = U_FEED
    /\ time - lastVoyagerTimestamp < 5000
    /\ Len(bus) = 1
    /\ bus[1].type = "json-parse"
    /\ bus[1].of = 0
    /\ host = [call |-> "JSON.parse", original |-> [value |-> V_ELEMENTS],
               observed |-> [value |-> V_ELEMENTS], fault |-> "none"]
    /\ IsNull(lastVoyagerUrl)


\* a step that is an invocation of the tracking wrapper of fetch
PrimaryCallInvoked == Len(fetches') = Len(fetches) + 1

(* C22: the pending-request index is purged on every primary call.  After  *)
(* every invocation of the tracking wrapper of fetch the index holds no    *)
(* entry older than 10000 ms, whether or not the requests under way ever   *)
(* settle.                                                                 *)
C22_PurgedOnEveryCall ==
    [][PrimaryCallInvoked
       => \A r \in pendingRequests' :
              time' - r.timestamp <= PENDING_TTL]_vars

\* the purge the code does make: when the original fetch of a call settles
\* the index keeps no entry older than 10000 ms
C22_PurgedOnSettle ==
    [][(\E i \in DOMAIN fetches :
            fetches[i].state = "pending" /\ fetches'[i].state = "settled")
       => \A r \in pendingRequests' :
              time' - r.timestamp <= PENDING_TTL]_vars


\* the classifier has been applied to the given URL
Classified == "category" \in DOMAIN returned

\* the identifier table names category c for the query identifier q
TableNames(q, n) ==
    \E i \in DOMAIN graphqlCategories[n].patterns :
        Includes(Lower(q), Lower(graphqlCategories[n].patterns[i]))

\* the ordered URL-substring table of the fallback
UrlTable ==
    << [cat |-> "feed", words |-> {"feed"}],
       [cat |-> "messaging", words |-> {"messaging"}],
       [cat |-> "profile", words |-> {"identity", "profile"}],
       [cat |-> "network", words |-> {"relationship", "connection"}],
       [cat |-> "analytics", words |-> {"analytics", "wvmp"}] >>

UrlNames(u, n) == \E w \in UrlTable[n].words : Includes(Lower(u), <<w>>)

\* the first row of a table for which hit holds
FirstRow(rows, hit) == CHOOSE n \in rows : n \in hit /\ \A m \in hit : n <= m

(* C23: classification rule.  If the URL carries a query identifier that   *)
(* contains, case-insensitively, a substring of the identifier table, the  *)
(* category is that of the first row of the table with such a substring;   *)
(* otherwise it is that of the first row of the URL-substring table (feed, *)
(* messaging, profile, network, analytics) one of whose substrings occurs  *)
(* case-insensitively in the URL; if nothing matches it is "other".        *)
C23_ClassificationRule ==
    Classified =>
        LET u == given.url
            q == extractQueryId(u)
            byId == IF IsNull(q) THEN {}
                    ELSE {n \in DOMAIN graphqlCategories :
                              TableNames(q.string, n)}
            byUrl == {n \in DOMAIN UrlTable : UrlNames(u, n)}
        IN  returned.category =
                IF byId # {}
                THEN graphqlCategories[FirstRow(DOMAIN graphqlCategories,
                                               byId)].cat
                ELSE IF byUrl # {}
                THEN UrlTable[FirstRow(DOMAIN UrlTable, byUrl)].cat
                ELSE "other"

\* a query identifier that contains an identifier of the messaging row and
\* one of the comments row has been classified as comments, the earlier row
C23_Witness ==
    /\ Classified
    /\ given.url = <<"queryId=", "messenger", "Messages",
                     "voyager", "Social", "Dash", "Replies">>
    /\ returned.category = "comments"


(* C24: closed category set.  For every URL the classifier returns one of  *)
(* feed, comments, reactions, messaging, profile, network, analytics,      *)
(* other.                                                                  *)
C24_ClosedCategorySet ==
    Classified
    => returned.category \in {"feed", "comments", "reactions", "messaging",
                              "profile", "network", "analytics", "other"}

(* C24, amended: for every URL the classifier returns one of feed,         *)
(* myPosts, comments, reactions, messaging, profile, network, analytics,   *)
(* other.                                                                  *)
C24_ClosedCategorySetWithMyPosts ==
    Classified
    => returned.category \in {"feed", "myPosts", "comments", "reactions",
                              "messaging", "profile", "network", "analytics",
                              "other"}

\* a URL whose query identifier is voyagerFeedDashProfileUpdates has been
\* classified as myPosts
C24_Witness ==
    /\ Classified
    /\ given.url = <<"queryId=", "voyager", "Feed", "Dash", "Profile",
                     "Update", "s">>
    /\ returned.category = "myPosts"


CountSaved ==
    /\ WrittenBy("SAVE_FOLLOWERS", K_FOLLOWERS)
    /\ "followerCount" \in DOMAIN request.data

(* C26: follower-count history.  After a SAVE_FOLLOWERS request carrying a *)
(* follower count, 0 included, the persisted current count is that number  *)
(* and the last element of history is {count, timestamp} with that number  *)
(* and the time of the request; history never holds more than 100 entries, *)
(* and whenever it is non-empty the current count is the count of its last *)
(* entry.                                                                  *)
C26_FollowerHistory ==
    /\ CountSaved
       => /\ storage[K_FOLLOWERS].followerCount = request.data.followerCount
          /\ History # <<>>
          /\ History[Len(History)] =
                 [count |-> request.data.followerCount, timestamp |-> clock]
    /\ Len(History) <= HISTORY_CAP
    /\ History # <<>>
       => storage[K_FOLLOWERS].followerCount = History[Len(History)].count


\* a step that handles an append to the captured-API log
AppendHandled ==
    /\ clock' = clock + 1
    /\ \/ request'.type = "API_CAPTURED"
       \/ request'.type = "APPEND_DATA" /\ request'.key = K_CAPTURED_APIS

\* the item of the append message, as the handler hands it to the log
AppendedItem ==
    IF request'.type = "API_CAPTURED"
    THEN [endpoint |-> request'.endpoint, method |-> request'.method,
          responseData |-> request'.data, url |-> request'.url]
    ELSE request'.data

\* the entries of the log before the step that the step keeps
KeptEntries == Min(Len(ApiLog), LOG_CAP - 1)

(* C27: generic log append.  Every APPEND_DATA or API_CAPTURED request     *)
(* leaves the log with the incoming item, stamped with capturedAt, as its  *)
(* last element, preceded by the entries the log held before in their     *)
(* order, of which only the oldest are dropped and only beyond 1000        *)
(* entries; the count of the response is the length of the persisted log.  *)
C27_LogAppend ==
    [][AppendHandled
       => /\ response'.success
          /\ response'.count = Len(ApiLog')
          /\ Len(ApiLog') = KeptEntries + 1
          /\ ApiLog'[Len(ApiLog')] =
                 Spread(AppendedItem, [capturedAt |-> clock'])
          /\ \A i \in 1 .. KeptEntries :
                 ApiLog'[i] = ApiLog[Len(ApiLog) - KeptEntries + i]]_vars

\* the same, for the appends whose backend calls all succeed
C27_LogAppendNoFault ==
    [][AppendHandled /\ NoFault(io')
       => /\ response'.success
          /\ response'.count = Len(ApiLog')
          /\ Len(ApiLog') = KeptEntries + 1
          /\ ApiLog'[Len(ApiLog')] =
                 Spread(AppendedItem, [capturedAt |-> clock'])
          /\ \A i \in 1 .. KeptEntries :
                 ApiLog'[i] = ApiLog[Len(ApiLog) - KeptEntries + i]]_vars


\* the collection types whose records the claim names by urn, topic or
\* entityUrn
KeyedLists ==
    {"SAVE_FEED_POSTS", "SAVE_COMMENTS", "SAVE_MY_POSTS", "SAVE_TRENDING",
     "SAVE_FOLLOWERS"}

\* every record of the persisted collection of the type has an identity key
AllKeyed(type) ==
    \A i \in DOMAIN StoredIn(storage, type) :
        Truthy(StoredIn(storage, type)[i], IdOf(type))

(* C28: records without an identity key are never stored.  No persisted    *)
(* record of feed posts, comments, my-posts, trending topics or the        *)
(* followers list has an empty or missing identity key; the newCount of a  *)
(* merge response counts no more than the distinct identity keys of the    *)
(* incoming batch, so records without one are not counted; and a           *)
(* post-analytics request without an activity identifier is answered with  *)
(* a failure and leaves the persisted post-analytics collection as it was. *)
C28_NoKeylessRecords ==
    /\ [](\A type \in KeyedLists : AllKeyed(type))
    /\ [][/\ (/\ clock' = clock + 1
              /\ request'.type \in KeyedLists
              /\ "newCount" \in DOMAIN response')
             => response'.newCount
                  <= Cardinality(Keys(Incoming(request'),
                                      IdOf(request'.type)))
          /\ (/\ clock' = clock + 1
              /\ request'.type = "POST_ANALYTICS_CAPTURED"
              /\ ~Admitted(request'))
             => /\ response'.success = FALSE
                /\ storage'[K_POST_ANALYTICS] = storage[K_POST_ANALYTICS]]_vars

\* a feed batch of three records, one with an empty urn, has been merged
\* and persisted: two records are stored and two are counted as new
C28_Witness ==
    /\ WrittenBy("SAVE_FEED_POSTS", K_FEED_POSTS)
    /\ \E i \in DOMAIN Incoming(request) :
           ~Truthy(Incoming(request)[i], "urn")
    /\ Len(Incoming(request)) = 3
    /\ Len(FeedPosts) = 2
    /\ response.newCount = 2


\* a step that handles a merge message of the type and whose write took
\* effect
MergedNow(type) ==
    /\ clock' = clock + 1
    /\ request'.type = type
    /\ \E i \in DOMAIN io' : io'[i] = IoSet(KeyOf(type), TRUE)

\* the identity keys of the batch of the step that are persisted after it
Touched(type) ==
    Keys(Incoming(request'), IdOf(type))
        \cap Keys(StoredIn(storage', type), IdOf(type))

\* the record of key k has its last-updated stamp set to the time of the
\* step
StampedNow(type, k) ==
    \A r \in {RecordOf(StoredIn(storage', type), IdOf(type), k)} :
        "lastUpdated" \in DOMAIN r /\ r.lastUpdated = clock'

\* the record of key k has a first-captured stamp: the time of the step if
\* the key was not stored before it, the stamp it had otherwise
FirstCapturedKept(type, k) ==
    \A r \in {RecordOf(StoredIn(storage', type), IdOf(type), k)} :
        /\ "firstCaptured" \in DOMAIN r
        /\ IF k \in Keys(StoredIn(storage, type), IdOf(type))
           THEN \A was \in {RecordOf(StoredIn(storage, type), IdOf(type), k)} :
                    "firstCaptured" \in DOMAIN was
                    => r.firstCaptured = was.firstCaptured
           ELSE r.firstCaptured = clock'

(* C29: record time stamps.  For feed posts, comments, my-posts and        *)
(* post-analytics, every record of a merged batch that is persisted has    *)
(* its last-updated stamp set to the time of that merge, and carries a     *)
(* first-captured stamp that was set when its identity key was first       *)
(* stored and that later merges of the key leave unchanged.                *)
C29_RecordStamps ==
    [][\A type \in Merging :
           MergedNow(type)
           => \A k \in Touched(type) :
                  StampedNow(type, k) /\ FirstCapturedKept(type, k)]_vars


\* the message types that merge or append into the collection stored under
\* the key
OwnMessages(key) ==
    CASE key = K_FEED_POSTS -> {"SAVE_FEED_POSTS"}
      [] key = K_COMMENTS -> {"SAVE_COMMENTS"}
      [] key = K_MY_POSTS -> {"SAVE_MY_POSTS"}
      [] key = K_FOLLOWERS -> {"SAVE_FOLLOWERS"}
      [] key = K_TRENDING -> {"SAVE_TRENDING"}
      [] key = K_POST_ANALYTICS -> {"POST_ANALYTICS_CAPTURED"}
      [] key = K_CAPTURED_APIS -> {"API_CAPTURED", "APPEND_DATA"}

(* C30: collections change only through their merge or a whole-namespace   *)
(* reset.  A step that changes the value stored under a collection key     *)
(* handles a merge or append message of that collection or CLEAR_DATA;     *)
(* every other message, the generic save included, leaves the value as it  *)
(* was.                                                                    *)
C30_OnlyOwnMessagesWrite ==
    [][\A key \in STORAGE_KEYS :
           storage'[key] # storage[key]
           => /\ clock' = clock + 1
              /\ request'.type \in OwnMessages(key) \cup {"CLEAR_DATA"}]_vars

\* the same, leaving the generic save aside
C30_NoOtherMessageWrites ==
    [][\A key \in STORAGE_KEYS :
           storage'[key] # storage[key]
           => /\ clock' = clock + 1
              /\ request'.type \in OwnMessages(key)
                                   \cup {"CLEAR_DATA", "SAVE_DATA"}]_vars


\* the position of the record with identity key k
PositionOf(records, idf, k) ==
    CHOOSE i \in DOMAIN records : Truthy(records[i], idf) /\ records[i][idf] = k

\* the last record of the batch with identity key k
LastOf(records, idf, k) ==
    records[CHOOSE i \in Holding(records, idf, k) :
                \A j \in Holding(records, idf, k) : j <= i]

\* the topics persisted before the step that the batch of the step holds
\* again
ReSeen ==
    Keys(Incoming(request'), "topic")
        \cap Keys(StoredIn(storage, "SAVE_TRENDING"), "topic")

\* the topics persisted before the step that the batch does not hold
NotSeen ==
    Keys(StoredIn(storage, "SAVE_TRENDING"), "topic")
        \ Keys(Incoming(request'), "topic")

(* C31: trending re-seen topics move to the end.  After a SAVE_TRENDING    *)
(* merge of a batch holding a topic that was already persisted (the total  *)
(* within capacity), the stored record of that topic is the incoming item  *)
(* stamped with lastSeen, and it stands after every persisted topic the    *)
(* batch did not hold.                                                     *)
C31_ReSeenMoveToEnd ==
    [][(MergedNow("SAVE_TRENDING") /\ NoFault(io'))
       => \A topics \in {StoredIn(storage', "SAVE_TRENDING")} :
              \A k \in ReSeen :
                  /\ RecordOf(topics, "topic", k) =
                         Spread(LastOf(Incoming(request'), "topic", k),
                                [lastSeen |-> clock'])
                  /\ \A j \in NotSeen :
                         PositionOf(topics, "topic", j)
                             < PositionOf(topics, "topic", k)]_vars

\* the part the code keeps: the re-seen topic's record is the incoming item
\* stamped with lastSeen, at the position the topic already had
C31_ReSeenReplacedInPlace ==
    [][(MergedNow("SAVE_TRENDING") /\ NoFault(io'))
       => \A topics \in {StoredIn(storage', "SAVE_TRENDING")} :
              \A k \in ReSeen :
                  /\ RecordOf(topics, "topic", k) =
                         Spread(LastOf(Incoming(request'), "topic", k),
                                [lastSeen |-> clock'])
                  /\ PositionOf(topics, "topic", k) =
                         PositionOf(StoredIn(storage, "SAVE_TRENDING"),
                                    "topic", k)]_vars


(* C32: trending keeps the recent topics.  After a SAVE_TRENDING merge     *)
(* every topic of the incoming batch (at most 200 distinct topics) is in   *)
(* the persisted collection, also when the deduplicated set exceeded 200   *)
(* and was truncated.                                                      *)
C32_BatchTopicsKept ==
    (/\ WrittenBy("SAVE_TRENDING", K_TRENDING)
     /\ NoFault(io)
     /\ Cardinality(Keys(Incoming(request), "topic")) <= TRENDING_CAP)
    => Keys(Incoming(request), "topic") \subseteq Keys(Topics, "topic")


\* the identity keys of the batch of the step that were not stored before it
NewFollowers ==
    Keys(Incoming(request'), "entityUrn") \ Keys(Followers, "entityUrn")

\* the followers list after the step is the list before it with the records
\* of re-sent keys replaced in place by the incoming ones, followed by the
\* followers with new keys, cut to the first 500
MergedInPlace(old, new) ==
    /\ Len(new) = Min(FOLLOWERS_CAP, Len(old) + Cardinality(NewFollowers))
    /\ \A i \in DOMAIN old \cap DOMAIN new :
           new[i] = IF old[i].entityUrn \in Keys(Incoming(request'),
                                                 "entityUrn")
                    THEN LastOf(Incoming(request'), "entityUrn",
                                old[i].entityUrn)
                    ELSE old[i]
    /\ \A i \in DOMAIN new \ DOMAIN old : new[i].entityUrn \in NewFollowers

(* C33: followers list at capacity.  A followers merge replaces the record *)
(* of a stored entity key wholly by the incoming one at the same position, *)
(* appends the followers with new keys after the stored ones and keeps the *)
(* first 500; once 500 followers are persisted no later request adds a     *)
(* follower with a new key or evicts a stored one.                         *)
C33_FollowersAtCapacity ==
    [][/\ (/\ MergedNow("SAVE_FOLLOWERS")
           /\ Len(Incoming(request')) > 0)
          => \A old \in {Followers} : MergedInPlace(old, Followers')
       /\ Len(Followers) = FOLLOWERS_CAP
          => Keys(Followers', "entityUrn") = Keys(Followers, "entityUrn")]_vars

\* the same for the requests whose read of the stored list succeeds
C33_FollowersAtCapacityRead ==
    [][/\ (/\ MergedNow("SAVE_FOLLOWERS")
           /\ NoFault(io')
           /\ Len(Incoming(request')) > 0)
          => \A old \in {Followers} : MergedInPlace(old, Followers')
       /\ (Len(Followers) = FOLLOWERS_CAP /\ NoFault(io'))
          => Keys(Followers', "entityUrn") = Keys(Followers, "entityUrn")]_vars


\* the message types of the storage and merge operations
StorageOperations ==
    {"SAVE_DATA", "GET_DATA", "GET_ALL_DATA", "CLEAR_DATA", "APPEND_DATA",
     "API_CAPTURED", "POST_ANALYTICS_CAPTURED", "SAVE_FEED_POSTS",
     "SAVE_COMMENTS", "SAVE_MY_POSTS", "SAVE_FOLLOWERS", "SAVE_TRENDING",
     "EXPORT_JSON", "EXPORT_CSV", "GET_STATS"}

(* C34: exactly one response per message.  When the listener's function    *)
(* for a message of a storage or merge operation has run to its end, every *)
(* backend call having returned or failed, sendResponse has been called    *)
(* for that message, also when the handler's operation failed.             *)
C34_EveryMessageAnswered ==
    request.type \in StorageOperations => response # NoMessage

\* the same for all operations but the CSV export
C34_AnsweredButCsv ==
    request.type \in StorageOperations \ {"EXPORT_CSV"}
    => response # NoMessage


\* the xhr events that the load of send number k produced
XhrEventsOf(k) ==
    {i \in DOMAIN bus : bus[i].type = "xhr" /\ bus[i].of = k}

(* C35: XHR URL association.  Every xhr event carries the method and URL   *)
(* given to the open call that most recently preceded the send which       *)
(* produced the response, and each send yields at most one xhr event, also *)
(* when the same request object is opened and sent again after an earlier  *)
(* send completed.                                                         *)
C35_XhrUrlAssociation ==
    \A k \in DOMAIN xhr.sends :
        /\ \A i \in XhrEventsOf(k) :
               /\ bus[i].url = xhr.sends[k].url
               /\ bus[i].method = xhr.sends[k].method
        /\ Cardinality(XhrEventsOf(k)) <= 1

\* the same for the first send of a request object
C35_FirstSendAssociation ==
    1 \in DOMAIN xhr.sends
    => /\ \A i \in XhrEventsOf(1) :
              /\ bus[i].url = xhr.sends[1].url
              /\ bus[i].method = xhr.sends[1].method
       /\ Cardinality(XhrEventsOf(1)) <= 1


\* the four hooks of context c are in place
HooksInPlace(c) ==
    /\ windows[c].fetch = InstalledWindow.fetch
    /\ windows[c].open = InstalledWindow.open
    /\ windows[c].send = InstalledWindow.send
    /\ windows[c].json = InstalledWindow.json
    /\ windows[c].parse = InstalledWindow.parse

\* no primitive of context c carries a wrapper of the script twice
WrappedOnce(c) ==
    /\ windows[c].fetch \in {<<>>, <<"capture">>, <<"capture", "tracking">>}
    /\ windows[c].open \in {<<>>, <<"intercept">>}
    /\ windows[c].send \in {<<>>, <<"intercept">>}
    /\ windows[c].json \in {<<>>, <<"capture">>}
    /\ windows[c].parse \in {<<>>, <<"capture">>}

\* a step that evaluates the script in a context where it is loaded changes
\* nothing there but the count of evaluations
SecondEvaluationIdle ==
    \A c \in Contexts :
        windows[c].loaded /\ windows'[c].evaluations > windows[c].evaluations
        => windows'[c] = [windows[c] EXCEPT !.evaluations = @ + 1]

(* C36: install once, then signal ready.  In one page context the script   *)
(* installs its hooks at most once even if it is evaluated again: the      *)
(* second evaluation changes nothing and wraps nothing twice.  The ready   *)
(* event is dispatched exactly once per installation, and only after all   *)
(* four hooks (fetch, XHR, Response.json, JSON.parse) are in place.        *)
C36_InstallOnceThenReady ==
    /\ [](\A c \in Contexts :
              /\ WrappedOnce(c)
              /\ Len(windows[c].ready) <= 1
              /\ windows[c].ready # <<>> => HooksInPlace(c))
    /\ [][SecondEvaluationIdle]_vars
    /\ \A c \in Contexts :
           windows[c].loaded ~> (windows[c].ready = <<READY_EVENT>>)

\* the script was evaluated a second time in a context it had been installed
\* in, which has one ready event
C36_Witness ==
    \E c \in Contexts :
        /\ windows[c].evaluations = 2
        /\ windows[c].pc = "idle"
        /\ windows[c] = [InstalledWindow EXCEPT !.evaluations = 2]


(* C37: an empty batch is a no-op.  A save-feed-posts, save-comments,      *)
(* save-my-posts or save-trending request whose batch is absent, not an    *)
(* array or empty, and a save-followers request with no data, returns      *)
(* success with count 0 and performs no backend read and no backend write: *)
(* no collection is created or modified and its lastUpdated is unchanged.  *)
C37_EmptyBatchNoop ==
    [][request'.type \in KeyedLists /\ ~Admitted(request')
       => /\ io' = <<>>
          /\ storage' = storage
          /\ response'.success = TRUE
          /\ "count" \in DOMAIN response'
          /\ response'.count = 0]_vars

\* a request with an empty array was answered while its collection exists
C37_Witness ==
    /\ request.type \in KeyedLists \ {"SAVE_FOLLOWERS"}
    /\ Incoming(request) = <<>>
    /\ request[FieldOf(request.type)] = Arr(<<>>)
    /\ response.count = 0
    /\ storage[KeyOf(request.type)] # NULL
    /\ "lastUpdated" \in DOMAIN storage[KeyOf(request.type)]


\* the identifiers of the records of a list
Urns(records) ==
    {records[i].urn : i \in {j \in DOMAIN records : Truthy(records[j], "urn")}}

\* the positions of `done' at which a CLEAR_DATA was answered with success
ResetAt ==
    {i \in DOMAIN done :
        done[i].msg.type = "CLEAR_DATA" /\ done[i].response.success}

\* the records the merges answered in the positions js of `done' delivered
DeliveredAt(js) ==
    UNION {Urns(Incoming(done[j].msg)) :
               j \in {n \in js : done[n].msg.type # "CLEAR_DATA"}}

\* the records that were stored or delivered before the reset at position i
\* and that no request answered after it delivered again
CapturedBefore(i) ==
    (Urns(SeedComments.array) \cup DeliveredAt(1 .. i - 1))
    \ DeliveredAt(i + 1 .. Len(done))

\* the records readable from the collection keys
Readable ==
    Urns(StoredIn(storage, "SAVE_COMMENTS"))
    \cup Urns(StoredIn(storage, "SAVE_MY_POSTS"))

(* C38: reset is final.  Once a CLEAR_DATA request has been answered with  *)
(* success, no record captured before the reset is readable from any       *)
(* collection key afterwards, also when a merge request had read its       *)
(* collection and was in flight when the reset ran.                        *)
C38_ResetIsFinal ==
    \A i \in ResetAt : Readable \cap CapturedBefore(i) = {}

\* the same for a reset that ran while no merge request was in flight
C38_IdleResetIsFinal ==
    \A i \in ResetAt :
        done[i].pending = 0 => Readable \cap CapturedBefore(i) = {}


\* no identifier occurs twice in the list
Distinct(list) == Cardinality({list[i] : i \in DOMAIN list}) = Len(list)

(* C39: pagination terminates within its limit.  For every sequence of     *)
(* page responses, full pages that bring no new connection and failed      *)
(* pages included, fetchAllConnections(maxConnections) issues finitely     *)
(* many page requests and returns, and the list it persists and returns    *)
(* holds no identifier twice and at most maxConnections entries.           *)
C39_PaginationTerminates ==
    /\ [](paging.pc = "returned"
          => /\ Distinct(paging.result.connections)
             /\ Distinct(paging.persisted)
             /\ Len(paging.result.connections) <= paging.maxConnections
             /\ Len(paging.persisted) <= paging.maxConnections)
    /\ (paging.pc = "loop") ~> (paging.pc = "returned")

\* a run returns once it has left the loop, and its list overshoots the
\* limit by less than a page
C39_ReturnsAfterLoop ==
    /\ [](paging.pc # "idle"
          => Len(paging.allConnections) < paging.maxConnections + PAGE_SIZE)
    /\ (paging.pc = "save") ~> (paging.pc = "returned")

=============================================================================
